---------------------------- MODULE Spec2Model ----------------------------
(***************************************************************************)
(* State-machine model of the SEC-filings canonicalization and chunking    *)
(* pipeline: src/src/parser.py (Section Segmenter), src/src/data_cleaning.py*)
(* (Table Canonicalizer), src/src/chunking.py (Table Splitter, Recursive   *)
(* Chunker, Pipeline Orchestrator).                                        *)
(*                                                                         *)
(* Text is modelled as a sequence of one-character strings, so that the    *)
(* regular expressions and the string operations of the code are computed  *)
(* character by character.  Each component has its own specification       *)
(* (SpecSplit, SpecChunk, ...); the variables of the other components stay *)
(* at their idle values.                                                   *)
(***************************************************************************)
EXTENDS Integers, Sequences, FiniteSets, TLC

VARIABLES
    \* ---- split_json_table_by_rows (chunking.py:50-75)
    json_text,        \* the argument: the codec it holds, "ok" telling whether it parses
    rows_per_chunk,   \* the argument rows_per_chunk
    split_i,          \* the loop variable i of range(0, len(rows), rows_per_chunk)
    split_chunks,     \* the local list chunks
    split_result,     \* the returned list
    split_pc,         \* "start", "loop", "done"
    \* ---- recursive_chunk_text (chunking.py:77-135)
    segments,         \* JSON_TABLE_PATTERN.split(text): narrative and table interiors alternate
    max_chunk_size,   \* the argument max_chunk_size
    min_chunk_size,   \* the argument min_chunk_size
    seg_i,            \* position of the loop over segments (1-based)
    paragraphs,       \* segment.split('\n\n') of the narrative segment at hand
    para_i,           \* position of the loop over paragraphs (1-based)
    sentences,        \* the sentences of the long paragraph still to pack
    current_chunk,    \* the local list current_chunk
    current_size,     \* the local counter current_size
    final_chunks,     \* the local list final_chunks
    chunk_table_id,   \* the fallback counter table_id
    chunk_result,     \* the returned list
    chunk_pc,         \* "segment", "para", "pack", "done"
    chunk_src,        \* history: for each entry of final_chunks, <<segment, paragraph>> it came from
    result_src,       \* history: the same for each entry of chunk_result
    section_rows,     \* the records process_and_chunk_files appends for the chunks
    section_row_mapping, \* the rows main makes of these records
    \* ---- extract_item_positions and extract_sections (parser.py:12-70)
    written,          \* history: the item markers the document was written with
    ten_k_text,       \* the text of the 10-K sub-document
    item_rows,        \* the local list rows: (x.group(), x.start(), x.end()) per match
    scan_pos,         \* where regex.finditer looks for the next match (1-based)
    pos_df,           \* the frame extract_item_positions returns
    sec_i,            \* position of the loop over range(len(pos_df) - 1) (1-based)
    cleaned_items,    \* the dict cleaned_items, in insertion order
    item_pc,          \* "scan", "sections", "done"
    \* ---- _extract_rows and _process_table on one table (data_cleaning.py:16-122)
    table,            \* the table: per tr, the stripped texts of its td and th cells
    tr_i,             \* position of the loop over table.find_all("tr") (1-based)
    tbl_rows,         \* the list rows of _extract_rows
    tbl_result,       \* what _process_table returns: None, or the columns and rows
    tbl_pc,           \* "extract", "done"
    \* ---- clean_and_replace_tables on one section (data_cleaning.py:129-155)
    tree,             \* the section's markup tree as given, in document order
    cur_parent,       \* the parent each node has now; NoParent once it left the tree
    tables,           \* self.soup.find_all("table")
    table_i,          \* position of the loop over the tables (1-based)
    clean_table_id,   \* the counter table_id
    sentinels,        \* the replacement divs: id, the node replaced and its parent
    clean_text,       \* the returned text, as the sequence of its pieces
    clean_pc,         \* "tables", "done"
    \* ---- process_and_chunk_files (chunking.py:137-228)
    base_exists,      \* os.path.exists(base_dir)
    entries,          \* the tickers and folders in the order of the listing
    batch_i,          \* position of the loop over the entries (1-based)
    all_rows,         \* the records accumulated
    batch_result,     \* the return value
    batch_pc,         \* "loop", "done"
    \* ---- main after chunking (main.py:31-90, embedder.py:16-43)
    main_rows,        \* all_rows as process_and_chunk_files returned it
    db_policy,        \* which rows the database accepts
    row_mapping,      \* the rows to store
    texts_for_embedding,
    emb_i,            \* the index i of generate_embeddings (0-based)
    all_embeddings,   \* the vectors collected by generate_embeddings
    encode_log,       \* what model.encode did on each batch so far
    embeddings,       \* the return value of generate_embeddings
    final_rows,       \* the payload for the database
    upload_invoked,   \* db.upload_chunks was called
    db_rows,          \* the rows the database holds
    main_pc,          \* "start", "embed", "compare", "done"
    \* ---- VectorDB.upload_chunks (database.py:18-44)
    upload_rows,      \* the argument rows
    upload_batch_size,
    upload_i,         \* the index i of the loop over the batches (0-based)
    upload_batch,     \* the batch being retried row by row
    retry_j,          \* position of the loop over the rows of that batch (1-based)
    success_count,
    failed_count,
    insert_log,       \* history: every insert executed, its rows and its outcome
    upload_pc         \* "loop", "retry", "done"

splitVars == <<json_text, rows_per_chunk, split_i, split_chunks, split_result, split_pc>>

chunkVars == <<segments, max_chunk_size, min_chunk_size, seg_i, paragraphs, para_i,
               sentences, current_chunk, current_size, final_chunks, chunk_table_id,
               chunk_result, chunk_pc, chunk_src, result_src, section_rows,
               section_row_mapping>>

itemVars == <<written, ten_k_text, item_rows, scan_pos, pos_df, sec_i, cleaned_items, item_pc>>

tblVars == <<table, tr_i, tbl_rows, tbl_result, tbl_pc>>

cleanVars == <<tree, cur_parent, tables, table_i, clean_table_id, sentinels, clean_text,
               clean_pc>>

batchVars == <<base_exists, entries, batch_i, all_rows, batch_result, batch_pc>>

mainVars == <<main_rows, db_policy, row_mapping, texts_for_embedding, emb_i, all_embeddings,
              encode_log, embeddings, final_rows, upload_invoked, db_rows, main_pc>>

uploadVars == <<upload_rows, upload_batch_size, upload_i, upload_batch, retry_j, success_count,
                failed_count, insert_log, upload_pc>>

vars == <<splitVars, chunkVars, itemVars, tblVars, cleanVars, batchVars, mainVars, uploadVars>>

\* What an action of one component leaves alone: the other components.
exceptSplit == <<chunkVars, itemVars, tblVars, cleanVars, batchVars, mainVars,
    uploadVars>>
exceptChunk == <<splitVars, itemVars, tblVars, cleanVars, batchVars, mainVars,
    uploadVars>>
exceptItem == <<splitVars, chunkVars, tblVars, cleanVars, batchVars, mainVars,
    uploadVars>>
exceptTbl == <<splitVars, chunkVars, itemVars, cleanVars, batchVars, mainVars,
    uploadVars>>
exceptClean == <<splitVars, chunkVars, itemVars, tblVars, batchVars, mainVars,
    uploadVars>>
exceptMain == <<splitVars, chunkVars, itemVars, tblVars, cleanVars, batchVars,
    uploadVars>>
exceptUpload == <<splitVars, chunkVars, itemVars, tblVars, cleanVars, batchVars, mainVars>>
exceptBatch == <<splitVars, chunkVars, itemVars, tblVars, cleanVars, mainVars,
    uploadVars>>

---------------------------------------------------------------------------
(* Generic helpers *)

\* The sequences over S of length lo..hi.
SeqsOf(S, lo, hi) == UNION {[1..n -> S] : n \in lo..hi}

Min2(a, b) == IF a < b THEN a ELSE b

\* Python's seq[a:b] for 0 <= a, on a 0-based half-open range.
Slice(s, a, b) == SubSeq(s, a + 1, Min2(b, Len(s)))

RECURSIVE Flatten(_)
Flatten(ss) == IF ss = <<>> THEN <<>> ELSE Head(ss) \o Flatten(Tail(ss))

\* Python's sep.join(parts), on texts as sequences of characters.
RECURSIVE Join(_, _)
Join(parts, sep) ==
    IF parts = <<>> THEN <<>>
    ELSE IF Len(parts) = 1 THEN parts[1]
    ELSE parts[1] \o sep \o Join(Tail(parts), sep)

\* The characters \s matches, among those of the model.
IsSpace(c) == c \in {" ", "\n", "\t"}

\* Python's str.lstrip, str.rstrip and str.strip.
RECURSIVE LStrip(_)
LStrip(s) == IF s # <<>> /\ IsSpace(Head(s)) THEN LStrip(Tail(s)) ELSE s

RECURSIVE RStrip(_)
RStrip(s) ==
    IF s # <<>> /\ IsSpace(s[Len(s)]) THEN RStrip(SubSeq(s, 1, Len(s) - 1)) ELSE s

Strip(s) == RStrip(LStrip(s))

\* Python's `t in s` on texts.
ContainsSub(s, t) ==
    \E p \in 1..(Len(s) - Len(t) + 1) : SubSeq(s, p, p + Len(t) - 1) = t

\* str(n) for n >= 0.
DigitChars == <<"0", "1", "2", "3", "4", "5", "6", "7", "8", "9">>

RECURSIVE IntToStr(_)
IntToStr(n) ==
    IF n < 10 THEN <<DigitChars[n + 1]>>
    ELSE IntToStr(n \div 10) \o <<DigitChars[(n % 10) + 1]>>

---------------------------------------------------------------------------
(* Table Splitter: split_json_table_by_rows, chunking.py:50-75 *)

MaxSplitRows == 7
MaxRowsPerChunk == 3

\* Sample rows, table ids and column lists of the codecs given to the splitter.
SplitRowPool == {"r1", "r2"}
SplitTableIds == {1, 2}
SplitColumnPool == {<<"Item", "2023">>}

\* A text json.loads raises on.
Unparseable == [ok |-> FALSE, table_id |-> 0, columns |-> <<>>, rows |-> <<>>]

\* json.loads (chunking.py:53) succeeds exactly on the texts with ok.
Parseable(t) == t.ok

SplitInputs ==
    {Unparseable} \cup
    [ok : {TRUE}, table_id : SplitTableIds, columns : SplitColumnPool,
     rows : SeqsOf(SplitRowPool, 0, MaxSplitRows)]

\* (i // rows_per_chunk) + 1, chunking.py:68
SplitPartOff0(i, k) == i \div k
SplitPart(i, k) == (i \div k) + 1

\* The payload built at chunking.py:63-69.
SplitPayload(data, i, k) ==
    [table_id |-> data.table_id,
     columns  |-> data.columns,
     rows     |-> Slice(data.rows, i, i + k),
     is_split |-> TRUE,
     part     |-> SplitPart(i, k)]

SplitIdle ==
    /\ json_text = Unparseable
    /\ rows_per_chunk = 1
    /\ split_i = 0
    /\ split_chunks = <<>>
    /\ split_result = <<>>
    /\ split_pc = "idle"

SplitInit ==
    /\ json_text \in SplitInputs
    /\ rows_per_chunk \in 1..MaxRowsPerChunk
    /\ split_i = 0
    /\ split_chunks = <<>>
    /\ split_result = <<>>
    /\ split_pc = "start"

\* json.loads raises: the except branch returns [json_text] (chunking.py:73-75).
SplitParseError ==
    /\ split_pc = "start"
    /\ ~Parseable(json_text)
    /\ split_result' = <<json_text>>
    /\ split_pc' = "done"
    /\ UNCHANGED <<json_text, rows_per_chunk, split_i, split_chunks, exceptSplit>>

\* if not rows: return [json_text] (chunking.py:58-59).
SplitNoRows ==
    /\ split_pc = "start"
    /\ Parseable(json_text)
    /\ json_text.rows = <<>>
    /\ split_result' = <<json_text>>
    /\ split_pc' = "done"
    /\ UNCHANGED <<json_text, rows_per_chunk, split_i, split_chunks, exceptSplit>>

\* Entering the for loop (chunking.py:61-62).
SplitEnterLoop ==
    /\ split_pc = "start"
    /\ Parseable(json_text)
    /\ json_text.rows # <<>>
    /\ split_pc' = "loop"
    /\ UNCHANGED <<json_text, rows_per_chunk, split_i, split_chunks, split_result, exceptSplit>>

\* One iteration of the for loop (chunking.py:62-70).
SplitLoopStep ==
    /\ split_pc = "loop"
    /\ split_i < Len(json_text.rows)
    /\ split_chunks' = Append(split_chunks, SplitPayload(json_text, split_i, rows_per_chunk))
    /\ split_i' = split_i + rows_per_chunk
    /\ UNCHANGED <<json_text, rows_per_chunk, split_result, split_pc, exceptSplit>>

\* The range is exhausted: return chunks (chunking.py:71).
SplitReturn ==
    /\ split_pc = "loop"
    /\ split_i >= Len(json_text.rows)
    /\ split_result' = split_chunks
    /\ split_pc' = "done"
    /\ UNCHANGED <<json_text, rows_per_chunk, split_i, split_chunks, exceptSplit>>

SplitNext ==
    \/ SplitParseError
    \/ SplitNoRows
    \/ SplitEnterLoop
    \/ SplitLoopStep
    \/ SplitReturn

CeilDiv(n, k) == (n + k - 1) \div k

SplitRowsOf(cs) == Flatten([j \in 1..Len(cs) |-> cs[j].rows])

\* C3: for a parseable codec with n >= 1 rows and k >= 1, the splitter returns
\* ceil(n/k) codecs with part = 1, 2, ..., each with is_split, the input's
\* table_id and columns, between 1 and k rows, and the rows concatenated in
\* part order are the input rows.
C3_SplitParts ==
    (split_pc = "done" /\ Parseable(json_text) /\ json_text.rows # <<>>) =>
        /\ Len(split_result) = CeilDiv(Len(json_text.rows), rows_per_chunk)
        /\ \A j \in 1..Len(split_result) :
              /\ split_result[j].part = j
              /\ split_result[j].is_split = TRUE
              /\ split_result[j].table_id = json_text.table_id
              /\ split_result[j].columns = json_text.columns
              /\ Len(split_result[j].rows) \in 1..rows_per_chunk
        /\ SplitRowsOf(split_result) = json_text.rows

\* A table of 7 rows has been split with rows_per_chunk = 3 into parts of
\* 3, 3 and 1 rows.
C3_Witness ==
    /\ split_pc = "done"
    /\ Parseable(json_text)
    /\ Len(json_text.rows) = 7
    /\ rows_per_chunk = 3
    /\ Len(split_result) = 3
    /\ Len(split_result[1].rows) = 3
    /\ Len(split_result[2].rows) = 3
    /\ Len(split_result[3].rows) = 1

---------------------------------------------------------------------------
(* Recursive Chunker: clean_chunk, extract_json_from_chunk and             *)
(* recursive_chunk_text, chunking.py:15-48 and 77-135                      *)

MaxSents == 3
MaxChunkSize == 6

StartTagPrefix ==
    <<"[", "S", "T", "A", "R", "T", "_", "T", "A", "B", "L", "E", "_", "J", "S", "O", "N">>
EndTagPrefix ==
    <<"[", "E", "N", "D", "_", "T", "A", "B", "L", "E", "_", "J", "S", "O", "N">>

\* "[START_TABLE_JSON" in chunk (chunking.py:20 and 135)
HasStartTag(c) == ContainsSub(c, StartTagPrefix)
HasEndTag(c) == ContainsSub(c, EndTagPrefix)

\* re.sub(r"(\.\s?){3,}", " ", chunk): a run of three or more dots, each with
\* at most one whitespace character after it, becomes one space.
RECURSIVE DotRun(_, _, _)
DotRun(s, p, n) ==
    IF p <= Len(s) /\ s[p] = "."
    THEN DotRun(s, IF p + 1 <= Len(s) /\ IsSpace(s[p + 1]) THEN p + 2 ELSE p + 1, n + 1)
    ELSE <<n, p>>

RECURSIVE SubDots(_, _)
SubDots(s, p) ==
    IF p > Len(s) THEN <<>>
    ELSE LET r == DotRun(s, p, 0)
         IN  IF r[1] >= 3 THEN <<" ">> \o SubDots(s, r[2])
             ELSE <<s[p]>> \o SubDots(s, p + 1)

\* The end (exclusive) of the longest run of characters of `set` from p.
RECURSIVE RunEnd(_, _, _)
RunEnd(s, p, set) ==
    IF p <= Len(s) /\ s[p] \in set THEN RunEnd(s, p + 1, set) ELSE p

\* re.sub(r"[-=_]{3,}", " ", chunk) and re.sub(r"\s{2,}", " ", chunk): a run
\* of at least `least` characters of `set` becomes one space.
RECURSIVE SubRuns(_, _, _, _)
SubRuns(s, p, set, least) ==
    IF p > Len(s) THEN <<>>
    ELSE LET q == RunEnd(s, p, set)
         IN  IF q - p >= least THEN <<" ">> \o SubRuns(s, q, set, least)
             ELSE <<s[p]>> \o SubRuns(s, p + 1, set, least)

SpaceChars == {" ", "\n", "\t"}
DashChars == {"-", "=", "_"}
PunctChars == {".", ",", ":", ";"}

\* re.sub(r"\s*([.,:;])\s*", r"\1 ", chunk): a punctuation character with the
\* whitespace around it becomes the character and one space.
RECURSIVE SubPunct(_, _)
SubPunct(s, p) ==
    IF p > Len(s) THEN <<>>
    ELSE LET q == RunEnd(s, p, SpaceChars)
         IN  IF q <= Len(s) /\ s[q] \in PunctChars
             THEN <<s[q], " ">> \o SubPunct(s, RunEnd(s, q + 1, SpaceChars))
             ELSE <<s[p]>> \o SubPunct(s, p + 1)

\* clean_chunk, chunking.py:15-27
clean_chunk(chunk) ==
    IF HasStartTag(chunk) \/ HasEndTag(chunk) THEN Strip(chunk)
    ELSE LET c1 == SubDots(chunk, 1)
             c2 == SubRuns(c1, 1, DashChars, 3)
             c3 == SubRuns(c2, 1, SpaceChars, 2)
             c4 == SubPunct(c3, 1)
         IN  Strip(c4)

\* content.find('{') and content.rfind('}') (chunking.py:43-44); 0 when absent.
FindFirst(s, c) ==
    IF \E p \in 1..Len(s) : s[p] = c
    THEN CHOOSE p \in 1..Len(s) : s[p] = c /\ \A q \in 1..(p - 1) : s[q] # c
    ELSE 0

FindLast(s, c) ==
    IF \E p \in 1..Len(s) : s[p] = c
    THEN CHOOSE p \in 1..Len(s) : s[p] = c /\ \A q \in (p + 1)..Len(s) : s[q] # c
    ELSE 0

\* extract_json_from_chunk (chunking.py:36-48) on the interior of a sentinel
\* block wrapped in its tags again: the pattern's group is that interior.
extract_json_from_chunk(interior) ==
    LET content == Strip(interior)
        json_start == FindFirst(content, "{")
        json_end == FindLast(content, "}")
    IN  IF json_start # 0 /\ json_end # 0 /\ json_start < json_end
        THEN SubSeq(content, json_start, json_end)
        ELSE <<>>

\* f"[START_TABLE_JSON {table_id}]\n{json_part}\n[END_TABLE_JSON {table_id}]"
\* (chunking.py:98)
JsonBlock(id, json_part) ==
    StartTagPrefix \o <<" ">> \o IntToStr(id) \o <<"]", "\n">> \o json_part
        \o <<"\n">> \o EndTagPrefix \o <<" ">> \o IntToStr(id) \o <<"]">>

\* A paragraph is held as the sentences nltk.sent_tokenize finds in it
\* (chunking.py:117): its text is the sentences with one space between them,
\* already stripped (chunking.py:109).  The empty paragraph is a blank one.
ParaText(para) == Join(para, <<" ">>)

\* The final filter (chunking.py:134-135).
Keep(c, min) == Len(c) >= min \/ HasStartTag(c)

\* The positions of final_chunks the final filter keeps, in order.
RECURSIVE KeptFrom(_, _, _)
KeptFrom(cs, j, min) ==
    IF j > Len(cs) THEN <<>>
    ELSE (IF Keep(cs[j], min) THEN <<j>> ELSE <<>>) \o KeptFrom(cs, j + 1, min)

\* The sentences, paragraphs and table interiors of the documents chunked.
SentPool ==
    { <<"a", "a", ".">>, <<"a", ".", "a">>, <<"a", "a", "a", "a", ".">>,
      <<"a", ".", ".", ".">>, <<"-", "-", "-", "a">>, <<"a", " ", " ", "a">> }

InteriorPool ==
    { <<"\n", "{", "x", "}", "\n">>, <<"x", "x", "x", "x", "x", "x", "x", "x">>, <<" ">>,
      <<"{", "a", "b", "c", "d", "}">>, <<"{", "{", "}">> }

TextSegment(ps) == [paras |-> ps, interior |-> <<>>]
TableSegment(t) == [paras |-> <<>>, interior |-> t]

ChunkDocs ==
    { <<TextSegment(<<p>>)>> : p \in SeqsOf(SentPool, 1, MaxSents) }
    \cup { <<TextSegment(<<<<s1>>, <<>>, <<s2>>>>), TableSegment(t), TextSegment(<<<<>>>>)>> :
             s1 \in SentPool, s2 \in {<<"a", "a", ".">>, <<"a", ".", "a">>}, t \in InteriorPool }
    \cup { <<TextSegment(<<<<s1>>>>), TableSegment(t), TextSegment(<<<<s2>>>>)>> :
             s1 \in {<<"a", "a", ".">>}, s2 \in {<<"a", "a", ".">>, <<"a", ".", "a">>},
             t \in {<<"{", "a", "b", "c", "d", "}">>, <<"{", "{", "}">>} }

\* not segment or not segment.strip() (chunking.py:90)
SegmentBlank(seg) ==
    /\ \A j \in 1..Len(seg.paras) : seg.paras[j] = <<>>
    /\ Strip(seg.interior) = <<>>

ChunkIdle ==
    /\ segments = <<>>
    /\ max_chunk_size = 1
    /\ min_chunk_size = 1
    /\ seg_i = 1
    /\ paragraphs = <<>>
    /\ para_i = 1
    /\ sentences = <<>>
    /\ current_chunk = <<>>
    /\ current_size = 0
    /\ final_chunks = <<>>
    /\ chunk_table_id = 1
    /\ chunk_result = <<>>
    /\ chunk_pc = "idle"
    /\ chunk_src = <<>>
    /\ result_src = <<>>
    /\ section_rows = <<>>
    /\ section_row_mapping = <<>>

ChunkInit ==
    /\ segments \in ChunkDocs
    /\ max_chunk_size \in 1..MaxChunkSize
    /\ min_chunk_size \in 1..max_chunk_size
    /\ seg_i = 1
    /\ paragraphs = <<>>
    /\ para_i = 1
    /\ sentences = <<>>
    /\ current_chunk = <<>>
    /\ current_size = 0
    /\ final_chunks = <<>>
    /\ chunk_table_id = 1
    /\ chunk_result = <<>>
    /\ chunk_pc = "segment"
    /\ chunk_src = <<>>
    /\ result_src = <<>>
    /\ section_rows = <<>>
    /\ section_row_mapping = <<>>

chunkArgs == <<segments, max_chunk_size, min_chunk_size>>
chunkPack == <<sentences, current_chunk, current_size>>
chunkOut == <<chunk_result, result_src>>
sectionOut == <<section_rows, section_row_mapping>>

\* An empty or blank segment is skipped (chunking.py:90-91).
ChunkSkipSegment ==
    /\ chunk_pc = "segment"
    /\ seg_i <= Len(segments)
    /\ SegmentBlank(segments[seg_i])
    /\ seg_i' = seg_i + 1
    /\ UNCHANGED <<chunkArgs, paragraphs, para_i, chunkPack, final_chunks, chunk_table_id,
                   chunk_pc, chunk_src, chunkOut, sectionOut,
                   exceptChunk>>

\* The interior of a sentinel block: Python's odd index i is the even position
\* here (chunking.py:94-103).
ChunkTableSegment ==
    /\ chunk_pc = "segment"
    /\ seg_i <= Len(segments)
    /\ ~SegmentBlank(segments[seg_i])
    /\ seg_i % 2 = 0
    /\ LET json_part == extract_json_from_chunk(segments[seg_i].interior)
       IN  IF json_part # <<>>
           THEN /\ final_chunks' = Append(final_chunks, JsonBlock(chunk_table_id, json_part))
                /\ chunk_table_id' = chunk_table_id + 1
           ELSE /\ final_chunks' = Append(final_chunks, Strip(segments[seg_i].interior))
                /\ UNCHANGED chunk_table_id
    /\ chunk_src' = Append(chunk_src, <<seg_i, 0>>)
    /\ seg_i' = seg_i + 1
    /\ UNCHANGED <<chunkArgs, paragraphs, para_i, chunkPack, chunk_pc, chunkOut, sectionOut,
                   exceptChunk>>

\* A narrative segment is split into paragraphs (chunking.py:106).
ChunkTextSegment ==
    /\ chunk_pc = "segment"
    /\ seg_i <= Len(segments)
    /\ ~SegmentBlank(segments[seg_i])
    /\ seg_i % 2 = 1
    /\ paragraphs' = segments[seg_i].paras
    /\ para_i' = 1
    /\ chunk_pc' = "para"
    /\ UNCHANGED <<chunkArgs, seg_i, chunkPack, final_chunks, chunk_table_id, chunk_src,
                   chunkOut, sectionOut,
                   exceptChunk>>

\* A blank paragraph is skipped (chunking.py:109-110).
ChunkSkipPara ==
    /\ chunk_pc = "para"
    /\ para_i <= Len(paragraphs)
    /\ paragraphs[para_i] = <<>>
    /\ para_i' = para_i + 1
    /\ UNCHANGED <<chunkArgs, seg_i, paragraphs, chunkPack, final_chunks, chunk_table_id,
                   chunk_pc, chunk_src, chunkOut, sectionOut,
                   exceptChunk>>

\* A paragraph of at most max_chunk_size characters is cleaned and emitted if
\* anything is left of it (chunking.py:112-114).
ChunkShortPara ==
    /\ chunk_pc = "para"
    /\ para_i <= Len(paragraphs)
    /\ paragraphs[para_i] # <<>>
    /\ Len(ParaText(paragraphs[para_i])) <= max_chunk_size
    /\ LET cleaned == clean_chunk(ParaText(paragraphs[para_i]))
       IN  IF cleaned # <<>>
           THEN /\ final_chunks' = Append(final_chunks, cleaned)
                /\ chunk_src' = Append(chunk_src, <<seg_i, para_i>>)
           ELSE UNCHANGED <<final_chunks, chunk_src>>
    /\ para_i' = para_i + 1
    /\ UNCHANGED <<chunkArgs, seg_i, paragraphs, chunkPack, chunk_table_id, chunk_pc,
                   chunkOut, sectionOut,
                   exceptChunk>>

\* A longer paragraph is split into sentences (chunking.py:115-119).
ChunkLongPara ==
    /\ chunk_pc = "para"
    /\ para_i <= Len(paragraphs)
    /\ paragraphs[para_i] # <<>>
    /\ Len(ParaText(paragraphs[para_i])) > max_chunk_size
    /\ sentences' = paragraphs[para_i]
    /\ current_chunk' = <<>>
    /\ current_size' = 0
    /\ chunk_pc' = "pack"
    /\ UNCHANGED <<chunkArgs, seg_i, paragraphs, para_i, final_chunks, chunk_table_id,
                   chunk_src, chunkOut, sectionOut,
                   exceptChunk>>

\* current_size + sent_len > max_chunk_size and current_chunk (chunking.py:123)
FlushNeeded(size, sent_len, max, chunk) == size + sent_len > max /\ chunk # <<>>

\* current_chunk = [sent] after a flush (chunking.py:125)
RestartEmpty(sent) == <<>>
RestartWith(sent) == <<sent>>

\* The running chunk is flushed and restarted with the sentence (chunking.py:123-126).
ChunkPackFlush ==
    /\ chunk_pc = "pack"
    /\ sentences # <<>>
    /\ FlushNeeded(current_size, Len(Head(sentences)), max_chunk_size, current_chunk)
    /\ final_chunks' = Append(final_chunks, clean_chunk(Join(current_chunk, <<" ">>)))
    /\ chunk_src' = Append(chunk_src, <<seg_i, para_i>>)
    /\ current_chunk' = RestartWith(Head(sentences))
    /\ current_size' = Len(Head(sentences))
    /\ sentences' = Tail(sentences)
    /\ UNCHANGED <<chunkArgs, seg_i, paragraphs, para_i, chunk_table_id, chunk_pc,
                   chunkOut, sectionOut,
                   exceptChunk>>

\* The sentence joins the running chunk (chunking.py:127-129).
ChunkPackAppend ==
    /\ chunk_pc = "pack"
    /\ sentences # <<>>
    /\ ~FlushNeeded(current_size, Len(Head(sentences)), max_chunk_size, current_chunk)
    /\ current_chunk' = Append(current_chunk, Head(sentences))
    /\ current_size' = current_size + Len(Head(sentences)) + 1
    /\ sentences' = Tail(sentences)
    /\ UNCHANGED <<chunkArgs, seg_i, paragraphs, para_i, final_chunks, chunk_table_id,
                   chunk_pc, chunk_src, chunkOut, sectionOut,
                   exceptChunk>>

\* The sentences are exhausted: the remainder is flushed (chunking.py:131-132).
ChunkFinalFlush ==
    /\ chunk_pc = "pack"
    /\ sentences = <<>>
    /\ IF current_chunk # <<>>
       THEN /\ final_chunks' = Append(final_chunks, clean_chunk(Join(current_chunk, <<" ">>)))
            /\ chunk_src' = Append(chunk_src, <<seg_i, para_i>>)
       ELSE UNCHANGED <<final_chunks, chunk_src>>
    /\ para_i' = para_i + 1
    /\ chunk_pc' = "para"
    /\ UNCHANGED <<chunkArgs, seg_i, paragraphs, chunkPack, chunk_table_id, chunkOut,
                   sectionOut,
                   exceptChunk>>

\* The paragraphs of the segment are exhausted (chunking.py:108).
ChunkEndParas ==
    /\ chunk_pc = "para"
    /\ para_i > Len(paragraphs)
    /\ seg_i' = seg_i + 1
    /\ chunk_pc' = "segment"
    /\ UNCHANGED <<chunkArgs, paragraphs, para_i, chunkPack, final_chunks, chunk_table_id,
                   chunk_src, chunkOut, sectionOut,
                   exceptChunk>>

\* The segments are exhausted: the final filter and the return (chunking.py:134-135).
ChunkReturn ==
    /\ chunk_pc = "segment"
    /\ seg_i > Len(segments)
    /\ LET kept == KeptFrom(final_chunks, 1, min_chunk_size)
       IN  /\ chunk_result' = [j \in 1..Len(kept) |-> final_chunks[kept[j]]]
           /\ result_src' = [j \in 1..Len(kept) |-> chunk_src[kept[j]]]
    /\ chunk_pc' = "done"
    /\ UNCHANGED <<chunkArgs, seg_i, paragraphs, para_i, chunkPack, final_chunks,
                   chunk_table_id, chunk_src, sectionOut,
                   exceptChunk>>

\* The entries of `cs` that came from paragraph <<s, p>>, in order.
RECURSIVE FromPara(_, _, _, _)
FromPara(cs, src, sp, j) ==
    IF j > Len(cs) THEN <<>>
    ELSE (IF src[j] = sp THEN <<cs[j]>> ELSE <<>>) \o FromPara(cs, src, sp, j + 1)

\* The sentences `sents` cut into consecutive groups after the positions `cuts`.
RECURSIVE GroupsFrom(_, _, _)
GroupsFrom(sents, cuts, from) ==
    IF from > Len(sents) THEN <<>>
    ELSE LET ends == {c \in cuts : c >= from} \cup {Len(sents)}
             to == CHOOSE c \in ends : \A d \in ends : c <= d
         IN  <<SubSeq(sents, from, to)>> \o GroupsFrom(sents, cuts, to + 1)

\* `cs` holds every sentence of `sents` once, whole and in order: it is the
\* cleaned, space-joined groups of some cutting of `sents` into consecutive
\* non-empty groups.
HoldsAllSentences(cs, sents) ==
    \E cuts \in SUBSET (1..(Len(sents) - 1)) :
        LET groups == GroupsFrom(sents, cuts, 1)
        IN  cs = [j \in 1..Len(groups) |-> clean_chunk(Join(groups[j], <<" ">>))]

\* The paragraphs longer than max_chunk_size, as <<segment, paragraph>>.
LongParas ==
    UNION { { <<s, p>> : p \in {q \in 1..Len(segments[s].paras) :
                                   Len(ParaText(segments[s].paras[q])) > max_chunk_size} } :
            s \in 1..Len(segments) }

\* C1 (as claimed): every returned chunk that is not a table sentinel block
\* has min_chunk_size <= len(chunk) <= max_chunk_size.
C1_SizeBounds ==
    chunk_pc = "done" =>
        \A j \in 1..Len(chunk_result) :
            ~HasStartTag(chunk_result[j]) =>
                /\ min_chunk_size <= Len(chunk_result[j])
                /\ Len(chunk_result[j]) <= max_chunk_size

\* C2 (as claimed): the chunks returned for a paragraph longer than
\* max_chunk_size hold every sentence of it once, whole and in order.
C2_NoSentenceLost ==
    chunk_pc = "done" =>
        \A sp \in LongParas :
            HoldsAllSentences(FromPara(chunk_result, result_src, sp, 1),
                              segments[sp[1]].paras[sp[2]])

\* C2 (amended): the chunks that the packing and the final flush build for a
\* paragraph longer than max_chunk_size hold every sentence of it once, whole
\* and in order; the final filter returns of them, in order, exactly those of
\* at least min_chunk_size characters (or holding a sentinel tag), so a
\* sentence is lost only with a chunk the filter drops.
C2_SentencesKeptUpToFilter ==
    chunk_pc = "done" =>
        \A sp \in LongParas :
            LET built == FromPara(final_chunks, chunk_src, sp, 1)
                back == FromPara(chunk_result, result_src, sp, 1)
            IN  /\ HoldsAllSentences(built, segments[sp[1]].paras[sp[2]])
                /\ back = SelectSeq(built,
                       LAMBDA c : Len(c) >= min_chunk_size
                                  \/ ContainsSub(c, StartTagPrefix))

\* A long paragraph was packed into several chunks, of which the filter kept
\* one and dropped another.
C2_Witness ==
    /\ chunk_pc = "done"
    /\ \E sp \in LongParas :
         LET built == FromPara(final_chunks, chunk_src, sp, 1)
             back == FromPara(chunk_result, result_src, sp, 1)
         IN  Len(built) >= 2 /\ Len(back) >= 1 /\ Len(back) < Len(built)

---------------------------------------------------------------------------
(* Section Segmenter: extract_item_positions and extract_sections,        *)
(* parser.py:12-70                                                         *)

MaxMarkers == 3

UpperChars ==
    <<"A", "B", "C", "D", "E", "F", "G", "H", "I", "J", "K", "L", "M",
      "N", "O", "P", "Q", "R", "S", "T", "U", "V", "W", "X", "Y", "Z">>
LowerChars ==
    <<"a", "b", "c", "d", "e", "f", "g", "h", "i", "j", "k", "l", "m",
      "n", "o", "p", "q", "r", "s", "t", "u", "v", "w", "x", "y", "z">>

UpperSet == {UpperChars[k] : k \in 1..26}
AlnumSet == UpperSet \cup {LowerChars[k] : k \in 1..26} \cup {DigitChars[k] : k \in 1..10}
LowerOf == [c \in UpperSet |-> LowerChars[CHOOSE k \in 1..26 : UpperChars[k] = c]]

\* str.lower on one character; also the folding of re.IGNORECASE.
Lower(c) == IF c \in UpperSet THEN LowerOf[c] ELSE c

IsAlnum(c) == c \in AlnumSet

\* The alternation (1A|1B|2|...|14) of the pattern, in its order (parser.py:15-16).
ItemNumbers ==
    << <<"1", "A">>, <<"1", "B">>, <<"2">>, <<"3">>, <<"4">>, <<"5">>, <<"6">>,
       <<"7">>, <<"7", "A">>, <<"8">>, <<"9", "A">>, <<"9", "B">>,
       <<"1", "0">>, <<"1", "1">>, <<"1", "2">>, <<"1", "3">>, <<"1", "4">> >>

\* A literal of the pattern matched at position p, letters compared without
\* case: the position after it, or 0.
MatchLit(text, p, lit) ==
    IF /\ p >= 1
       /\ p + Len(lit) - 1 <= Len(text)
       /\ \A k \in 1..Len(lit) : Lower(text[p + k - 1]) = Lower(lit[k])
    THEN p + Len(lit)
    ELSE 0

\* The alternation of item numbers at p: the first alternative, in the
\* pattern's order, that matches is taken (what follows it in the pattern
\* never fails, so the matcher does not come back for a later one).
MatchNum(text, p) ==
    IF p = 0 THEN 0
    ELSE LET hits == {k \in 1..Len(ItemNumbers) : MatchLit(text, p, ItemNumbers[k]) # 0}
         IN  IF hits = {} THEN 0
             ELSE MatchLit(text, p, ItemNumbers[CHOOSE k \in hits : \A h \in hits : k <= h])

\* (\s|&#160;|nbsp;) at p (parser.py:15)
MatchSep(text, p) ==
    IF p = 0 THEN 0
    ELSE IF p <= Len(text) /\ IsSpace(text[p]) THEN p + 1
    ELSE IF MatchLit(text, p, <<"&", "#", "1", "6", "0", ";">>) # 0 THEN p + 6
    ELSE MatchLit(text, p, <<"n", "b", "s", "p", ";">>)

\* >Item(\s|&#160;|nbsp;)(...)\.{0,1} at p (parser.py:15)
MatchHtml(text, p) ==
    LET e == MatchNum(text, MatchSep(text, MatchLit(text, p, <<">", "I", "t", "e", "m">>)))
    IN  IF e = 0 THEN 0
        ELSE IF e <= Len(text) /\ text[e] = "." THEN e + 1 ELSE e

\* ITEM\s(...) at p (parser.py:16)
MatchPlain(text, p) ==
    LET q == MatchLit(text, p, <<"I", "T", "E", "M">>)
    IN  IF q # 0 /\ q <= Len(text) /\ IsSpace(text[q]) THEN MatchNum(text, q + 1) ELSE 0

\* The whole pattern at p: the position after the match, or 0.
MatchAt(text, p) ==
    IF MatchHtml(text, p) # 0 THEN MatchHtml(text, p) ELSE MatchPlain(text, p)

\* The first position from `from` on where the pattern matches, or 0: where
\* regex.finditer finds its next match.
RECURSIVE NextMatch(_, _)
NextMatch(text, from) ==
    IF from > Len(text) THEN 0
    ELSE IF MatchAt(text, from) # 0 THEN from
    ELSE NextMatch(text, from + 1)

\* The three str operations on the 'item' column (parser.py:25-30).
Normalize(group) ==
    LET nospace == SelectSeq(group, LAMBDA c : ~IsSpace(c))
        alnum == SelectSeq(nospace, IsAlnum)
    IN  [k \in 1..Len(alnum) |-> Lower(alnum[k])]

\* df.sort_values('start'): a stable insertion sort on start.
RECURSIVE InsertByStart(_, _)
InsertByStart(sorted, row) ==
    IF sorted = <<>> THEN <<row>>
    ELSE IF sorted[Len(sorted)].start <= row.start THEN Append(sorted, row)
    ELSE Append(InsertByStart(SubSeq(sorted, 1, Len(sorted) - 1), row), sorted[Len(sorted)])

RECURSIVE SortByStart(_)
SortByStart(rows) ==
    IF rows = <<>> THEN <<>>
    ELSE InsertByStart(SortByStart(SubSeq(rows, 1, Len(rows) - 1)), rows[Len(rows)])

\* The rows of `rows` at the positions of `idx`, in order.
RECURSIVE RowsAt(_, _, _)
RowsAt(rows, idx, k) ==
    IF k > Len(rows) THEN <<>>
    ELSE (IF k \in idx THEN <<rows[k]>> ELSE <<>>) \o RowsAt(rows, idx, k + 1)

\* drop_duplicates(subset=['item'], keep='last') (parser.py:32)
DropDuplicatesKeepFirst(rows) ==
    RowsAt(rows, {k \in 1..Len(rows) : \A j \in 1..(k - 1) : rows[j].item # rows[k].item}, 1)
DropDuplicatesKeepLast(rows) ==
    RowsAt(rows, {k \in 1..Len(rows) : \A j \in (k + 1)..Len(rows) : rows[j].item # rows[k].item}, 1)

\* The frame extract_item_positions returns (parser.py:24-34).
PositionFrame(rows) ==
    DropDuplicatesKeepLast(
        SortByStart([k \in 1..Len(rows) |->
            [item |-> Normalize(rows[k].item), start |-> rows[k].start, end |-> rows[k].end]]))

\* end = pos_df['start'].iloc[i+1] (parser.py:64), for the 1-based position i.
SectionEndAtMatchEnd(df, i) == df[i].end
SectionEnd(df, i) == df[i + 1].start

\* cleaned_items[key] = ...: a dict keeps the place of a key it already holds.
DictPut(d, entry) ==
    IF \E k \in 1..Len(d) : d[k].key = entry.key
    THEN [k \in 1..Len(d) |-> IF d[k].key = entry.key THEN entry ELSE d[k]]
    ELSE Append(d, entry)

\* The markers written in the documents segmented: an item number in one of
\* the forms the pattern describes.
MarkerForms == {"html", "html160", "htmlnbsp", "plain"}

FormPrefix(form) ==
    CASE form = "html"     -> <<">", "I", "t", "e", "m", " ">>
      [] form = "html160"  -> <<">", "I", "t", "e", "m", "&", "#", "1", "6", "0", ";">>
      [] form = "htmlnbsp" -> <<">", "I", "t", "e", "m", "n", "b", "s", "p", ";">>
      [] form = "plain"    -> <<"I", "T", "E", "M", " ">>

FormSuffix(form) == IF form = "html" THEN <<".">> ELSE <<>>

MarkerText(w) == FormPrefix(w.form) \o w.num \o FormSuffix(w.form)

\* The text between markers.
Filler == <<"x">>

DocText(lead, ws) ==
    lead \o Flatten([k \in 1..Len(ws) |-> MarkerText(ws[k]) \o Filler])

AllMarkers == [num : {ItemNumbers[k] : k \in 1..Len(ItemNumbers)}, form : MarkerForms]
FewMarkers == [num : {<<"1", "A">>, <<"7">>, <<"8">>}, form : {"html", "plain"}]

ItemDocs ==
    SeqsOf(FewMarkers, 0, MaxMarkers) \cup SeqsOf(AllMarkers, 1, 2)

ItemIdle ==
    /\ written = <<>>
    /\ ten_k_text = <<>>
    /\ item_rows = <<>>
    /\ scan_pos = 1
    /\ pos_df = <<>>
    /\ sec_i = 1
    /\ cleaned_items = <<>>
    /\ item_pc = "idle"

ItemInit ==
    /\ written \in ItemDocs
    /\ \E lead \in {<<>>, Filler} :
          ten_k_text = IF written = <<>> THEN <<>> ELSE DocText(lead, written)
    /\ item_rows = <<>>
    /\ scan_pos = 1
    /\ pos_df = <<>>
    /\ sec_i = 1
    /\ cleaned_items = <<>>
    /\ item_pc = "scan"

\* if not ten_k_text: return {} (parser.py:54-55)
ItemNoDocument ==
    /\ item_pc = "scan"
    /\ ten_k_text = <<>>
    /\ item_pc' = "done"
    /\ UNCHANGED <<written, ten_k_text, item_rows, scan_pos, pos_df, sec_i, cleaned_items,
                   exceptItem>>

\* The next match of regex.finditer, with its text and its 0-based start and
\* end (parser.py:19-22).
ItemFindMatch ==
    /\ item_pc = "scan"
    /\ ten_k_text # <<>>
    /\ \E p \in {NextMatch(ten_k_text, scan_pos)} :
          /\ p # 0
          /\ \E e \in {MatchAt(ten_k_text, p)} :
                /\ item_rows' = Append(item_rows,
                       [item |-> SubSeq(ten_k_text, p, e - 1), start |-> p - 1, end |-> e - 1])
                /\ scan_pos' = e
    /\ UNCHANGED <<written, ten_k_text, pos_df, sec_i, cleaned_items, item_pc, exceptItem>>

\* No further match: the frame is built, normalized, sorted and deduplicated
\* (parser.py:24-34), and extract_sections starts its loop (parser.py:57-61).
ItemBuildFrame ==
    /\ item_pc = "scan"
    /\ ten_k_text # <<>>
    /\ NextMatch(ten_k_text, scan_pos) = 0
    /\ pos_df' = PositionFrame(item_rows)
    /\ sec_i' = 1
    /\ item_pc' = "sections"
    /\ UNCHANGED <<written, ten_k_text, item_rows, scan_pos, cleaned_items, exceptItem>>

\* One iteration of range(len(pos_df) - 1) (parser.py:61-68); the cleaned
\* text of the section is held as the span it is cut from.
ItemEmitSection ==
    /\ item_pc = "sections"
    /\ sec_i <= Len(pos_df) - 1
    /\ cleaned_items' = DictPut(cleaned_items,
           [key   |-> <<"r", "a", "w", "_">> \o pos_df[sec_i].item,
            start |-> pos_df[sec_i].start,
            end   |-> SectionEnd(pos_df, sec_i)])
    /\ sec_i' = sec_i + 1
    /\ UNCHANGED <<written, ten_k_text, item_rows, scan_pos, pos_df, item_pc, exceptItem>>

\* return cleaned_items (parser.py:70)
ItemReturn ==
    /\ item_pc = "sections"
    /\ sec_i > Len(pos_df) - 1
    /\ item_pc' = "done"
    /\ UNCHANGED <<written, ten_k_text, item_rows, scan_pos, pos_df, sec_i, cleaned_items,
                   exceptItem>>

ItemNext ==
    \/ ItemNoDocument
    \/ ItemFindMatch
    \/ ItemBuildFrame
    \/ ItemEmitSection
    \/ ItemReturn

FrameBuilt == item_pc \in {"sections", "done"} /\ ten_k_text # <<>>

\* The keys of the matches, and the largest start offset of the matches of a key.
MatchKeys == {Normalize(item_rows[k].item) : k \in 1..Len(item_rows)}

LastStart(key) ==
    LET starts == {item_rows[k].start : k \in {j \in 1..Len(item_rows) :
                                                 Normalize(item_rows[j].item) = key}}
    IN  CHOOSE s \in starts : \A t \in starts : t <= s

\* C4: of the matches that normalize to one key exactly one entry survives,
\* the one with the largest start offset; the entries are in increasing order
\* of start offset and no key occurs twice.
C4_KeepLast ==
    FrameBuilt =>
        /\ \A key \in MatchKeys :
              /\ Cardinality({k \in 1..Len(pos_df) : pos_df[k].item = key}) = 1
              /\ \A k \in 1..Len(pos_df) :
                    pos_df[k].item = key => pos_df[k].start = LastStart(key)
        /\ \A k \in 1..Len(pos_df) : pos_df[k].item \in MatchKeys
        /\ \A k \in 1..(Len(pos_df) - 1) : pos_df[k].start < pos_df[k + 1].start

\* Three matches, two of them with one key, have been reduced to two entries.
C4_Witness ==
    /\ FrameBuilt
    /\ Len(item_rows) = 3
    /\ Len(pos_df) = 2
    /\ Normalize(item_rows[1].item) = Normalize(item_rows[3].item)
    /\ Normalize(item_rows[1].item) # Normalize(item_rows[2].item)

SurvivorStarts == {LastStart(key) : key \in MatchKeys}

\* C5: with m >= 1 distinct keys, exactly m - 1 sections are emitted; section
\* i spans from the i-th surviving start to the next one, so the sections are
\* contiguous, non-overlapping and in order, and the marker with the largest
\* start is not emitted.
C5_Sections ==
    (item_pc = "done" /\ MatchKeys # {}) =>
        /\ Len(cleaned_items) = Cardinality(MatchKeys) - 1
        /\ \A k \in 1..Len(cleaned_items) :
              /\ cleaned_items[k].start \in SurvivorStarts
              /\ cleaned_items[k].end \in SurvivorStarts
              /\ cleaned_items[k].start < cleaned_items[k].end
              /\ ~\E s \in SurvivorStarts :
                    cleaned_items[k].start < s /\ s < cleaned_items[k].end
              /\ LastStart(SubSeq(cleaned_items[k].key, 5, Len(cleaned_items[k].key)))
                    = cleaned_items[k].start
        /\ \A k \in 1..(Len(cleaned_items) - 1) :
              cleaned_items[k].end = cleaned_items[k + 1].start
        /\ \A k \in 1..Len(cleaned_items) :
              \E s \in SurvivorStarts : cleaned_items[k].start < s

\* Three distinct keys have given two sections.
C5_Witness ==
    /\ item_pc = "done"
    /\ Cardinality(MatchKeys) = 3
    /\ Len(cleaned_items) = 2
    /\ Len(item_rows) = 3

\* C6 (as claimed): every written marker is matched in full, markers of
\* different item numbers get different keys, and a marker of item 7A
\* written with a space gets the key item7a.
C6_OwnKey ==
    FrameBuilt =>
        /\ Len(item_rows) = Len(written)
        /\ \A k \in 1..Len(item_rows) : item_rows[k].item = MarkerText(written[k])
        /\ \A j, k \in 1..Len(item_rows) :
              written[j].num # written[k].num =>
                  Normalize(item_rows[j].item) # Normalize(item_rows[k].item)
        /\ \A k \in 1..Len(item_rows) :
              (written[k].num = <<"7", "A">> /\ written[k].form \in {"html", "plain"}) =>
                  Normalize(item_rows[k].item) = <<"i", "t", "e", "m", "7", "a">>

---------------------------------------------------------------------------
(* Table Canonicalizer, one table: _extract_rows, _pad_rows,               *)
(* _remove_grouping_header, _set_headers and _process_table,               *)
(* data_cleaning.py:16-122                                                 *)

MaxTableRows == 3

\* re.fullmatch(r'%+', value) (data_cleaning.py:67 and 103)
IsPercentRun(v) == v # <<>> /\ \A k \in 1..Len(v) : v[k] = "%"

\* The token-merge pass over the cells of one row (data_cleaning.py:57-77):
\* `i` is the 1-based position, `merged` the list merged_row.
RECURSIVE MergeFrom(_, _, _)
MergeFrom(cells, i, merged) ==
    IF i > Len(cells) THEN merged
    ELSE IF cells[i] = <<"$">> /\ i + 1 <= Len(cells)
         THEN MergeFrom(cells, i + 2, Append(merged, <<"$">> \o cells[i + 1]))
    ELSE IF IsPercentRun(cells[i]) /\ merged # <<>>
         THEN MergeFrom(cells, i + 1, [merged EXCEPT ![Len(merged)] = @ \o cells[i]])
    ELSE IF cells[i] = <<")", "%">> /\ merged # <<>>
         THEN MergeFrom(cells, i + 1, [merged EXCEPT ![Len(merged)] = @ \o <<")", "%">>])
    ELSE MergeFrom(cells, i + 1, Append(merged, cells[i]))

MergeRow(cells) == MergeFrom(cells, 1, <<>>)

\* cell.strip() is non-empty
NonBlank(cell) == Strip(cell) # <<>>

\* rows = [r for r in rows if any(cell.strip() for cell in r)] (data_cleaning.py:20)
FilterEmptyRows(rows) ==
    SelectSeq(rows, LAMBDA r : \E k \in 1..Len(r) : NonBlank(r[k]))

\* _pad_rows (data_cleaning.py:81-83)
MaxWidth(rows) ==
    LET widths == {Len(rows[k]) : k \in 1..Len(rows)}
    IN  CHOOSE w \in widths : \A v \in widths : v <= w

PadRows(rows) ==
    LET width == MaxWidth(rows)
    IN  [k \in 1..Len(rows) |->
            rows[k] \o [j \in 1..(width - Len(rows[k])) |-> <<>>]]

\* sum(x.strip() != "" for x in df.iloc[r, 1:]) (data_cleaning.py:87-88)
DataCount(row) == Cardinality({k \in 2..Len(row) : NonBlank(row[k])})

\* _remove_grouping_header (data_cleaning.py:85-93)
RemoveGroupingHeader(rows) ==
    IF Len(rows) < 2 THEN rows
    ELSE IF DataCount(rows[2]) > DataCount(rows[1]) /\ DataCount(rows[1]) < 2
         THEN Tail(rows)
    ELSE rows

\* The header row with its blank cells filled from the left
\* (data_cleaning.py:37): a leading blank cell stays blank.
RECURSIVE ForwardFill(_, _, _)
ForwardFill(header, k, last) ==
    IF k > Len(header) THEN <<>>
    ELSE IF NonBlank(header[k])
         THEN <<header[k]>> \o ForwardFill(header, k + 1, header[k])
    ELSE <<last>> \o ForwardFill(header, k + 1, last)

\* The columns the pruning keeps (data_cleaning.py:41-44): the first, and
\* those with a non-blank cell in a body row.
AllColumns(rows) == 1..Len(rows[1])
ColumnsWithData(rows) ==
    {c \in 1..Len(rows[1]) : c = 1 \/ \E r \in 2..Len(rows) : NonBlank(rows[r][c])}

\* The cells of `row` at the columns `cols`, in order.
RECURSIVE PickColumns(_, _, _)
PickColumns(row, cols, c) ==
    IF c > Len(row) THEN <<>>
    ELSE (IF c \in cols THEN <<row[c]>> ELSE <<>>) \o PickColumns(row, cols, c + 1)

KeepColumns(rows, cols) == [r \in 1..Len(rows) |-> PickColumns(rows[r], cols, 1)]

ItemLabel == <<"I", "t", "e", "m">>

\* header = df.iloc[0].tolist(); header[0] = "Item" (data_cleaning.py:98-99)
HeaderOf(rows) == [rows[1] EXCEPT ![1] = ItemLabel]

\* The de-duplication loop of _set_headers (data_cleaning.py:112-120): `seen`
\* is the dict seen, a function from the labels met to their counts.
RECURSIVE CleanHeader(_, _, _)
CleanHeader(header, k, seen) ==
    IF k > Len(header) THEN <<>>
    ELSE IF header[k] \in DOMAIN seen
         THEN <<header[k] \o <<"_">> \o IntToStr(seen[header[k]] + 1)>>
              \o CleanHeader(header, k + 1, [seen EXCEPT ![header[k]] = @ + 1])
    ELSE <<header[k]>> \o CleanHeader(header, k + 1, (header[k] :> 0) @@ seen)

\* The empty dict.
NoneSeen == [x \in {} |-> 0]

\* _set_headers (data_cleaning.py:95-122) on a frame of at least one row:
\* the column labels and the rows under the header.
SetHeaders(rows) ==
    LET drop == {c \in 2..Len(rows[1]) : IsPercentRun(Strip(HeaderOf(rows)[c]))}
        kept == KeepColumns(rows, (1..Len(rows[1])) \ drop)
    IN  [none    |-> FALSE,
         columns |-> CleanHeader(HeaderOf(kept), 1, NoneSeen),
         rows    |-> Tail(kept)]

\* The result None of _process_table.
NoTable == [none |-> TRUE, columns |-> <<>>, rows |-> <<>>]

\* _process_table after the row extraction (data_cleaning.py:20-46).
ProcessRows(extracted) ==
    LET rows == FilterEmptyRows(extracted)
    IN  IF rows = <<>> THEN NoTable
        ELSE LET df == RemoveGroupingHeader(PadRows(rows))
             IN  IF Len(df) = 1 THEN SetHeaders(df)
                 ELSE LET filled == [df EXCEPT ![1] = ForwardFill(df[1], 1, <<>>)]
                      IN  SetHeaders(KeepColumns(filled, ColumnsWithData(filled)))

\* The cell texts of the tables canonicalized.
Blank == <<>>
Dollar == <<"$">>
Percent == <<"%">>
Revenue == <<"R", "e", "v", "e", "n", "u", "e">>
Y2023 == <<"2", "0", "2", "3">>
Y2022 == <<"2", "0", "2", "2">>
V100 == <<"1", "0", "0">>
V5 == <<"5">>
LabelA == <<"A">>
LabelA1 == <<"A", "_", "1">>

\* The table of the spec's Scenario B.
ScenarioB ==
    << <<Blank, Y2023, Y2022>>, <<Revenue, Dollar, V100>>, <<Blank, Percent, V5>> >>

\* The rows of cells (of the td and th of one tr) the tables are made of.
TableRowPool ==
    { <<Blank, Y2023, Y2022>>, <<Revenue, Dollar, V100>>, <<Blank, Percent, V5>>,
      <<Blank, LabelA, LabelA, LabelA1>>, <<Revenue, V5, V5, V5>>,
      <<Blank, Blank>>, <<>>, <<Percent, Blank, LabelA>>, <<Revenue, V5, <<")", "%">>>> }

TblIdle ==
    /\ table = <<>>
    /\ tr_i = 1
    /\ tbl_rows = <<>>
    /\ tbl_result = NoTable
    /\ tbl_pc = "idle"

TblInit ==
    /\ table \in SeqsOf(TableRowPool, 1, MaxTableRows)
    /\ tr_i = 1
    /\ tbl_rows = <<>>
    /\ tbl_result = NoTable
    /\ tbl_pc = "extract"

\* A tr without td or th is skipped (data_cleaning.py:53-54).
TblSkipRow ==
    /\ tbl_pc = "extract"
    /\ tr_i <= Len(table)
    /\ table[tr_i] = <<>>
    /\ tr_i' = tr_i + 1
    /\ UNCHANGED <<table, tbl_rows, tbl_result, tbl_pc, exceptTbl>>

\* The cells of a tr are merged and appended (data_cleaning.py:51-78).
TblExtractRow ==
    /\ tbl_pc = "extract"
    /\ tr_i <= Len(table)
    /\ table[tr_i] # <<>>
    /\ tbl_rows' = Append(tbl_rows, MergeRow(table[tr_i]))
    /\ tr_i' = tr_i + 1
    /\ UNCHANGED <<table, tbl_result, tbl_pc, exceptTbl>>

\* No row with a non-blank cell: _process_table returns None (data_cleaning.py:20-22).
TblNoRows ==
    /\ tbl_pc = "extract"
    /\ tr_i > Len(table)
    /\ FilterEmptyRows(tbl_rows) = <<>>
    /\ tbl_result' = ProcessRows(tbl_rows)
    /\ tbl_pc' = "done"
    /\ UNCHANGED <<table, tr_i, tbl_rows, exceptTbl>>

\* One row is left after the grouping header is removed: it is the header
\* (data_cleaning.py:24-34).
TblHeaderOnly ==
    /\ tbl_pc = "extract"
    /\ tr_i > Len(table)
    /\ FilterEmptyRows(tbl_rows) # <<>>
    /\ Len(RemoveGroupingHeader(PadRows(FilterEmptyRows(tbl_rows)))) = 1
    /\ tbl_result' = ProcessRows(tbl_rows)
    /\ tbl_pc' = "done"
    /\ UNCHANGED <<table, tr_i, tbl_rows, exceptTbl>>

\* Header and body: forward fill, pruning and _set_headers (data_cleaning.py:36-46).
TblHeaderAndBody ==
    /\ tbl_pc = "extract"
    /\ tr_i > Len(table)
    /\ FilterEmptyRows(tbl_rows) # <<>>
    /\ Len(RemoveGroupingHeader(PadRows(FilterEmptyRows(tbl_rows)))) > 1
    /\ tbl_result' = ProcessRows(tbl_rows)
    /\ tbl_pc' = "done"
    /\ UNCHANGED <<table, tr_i, tbl_rows, exceptTbl>>

TblNext ==
    \/ TblSkipRow
    \/ TblExtractRow
    \/ TblNoRows
    \/ TblHeaderOnly
    \/ TblHeaderAndBody

\* C7 (as claimed): on the table of Scenario B the merge pass yields
\* ["Revenue","$100"] and ["","5%"] and the codec's columns are
\* ["Item","2023","2022"].
C7_ScenarioBAsClaimed ==
    (tbl_pc = "done" /\ table = ScenarioB) =>
        /\ tbl_rows[2] = <<Revenue, <<"$", "1", "0", "0">>>>
        /\ tbl_rows[3] = <<Blank, <<"5", "%">>>>
        /\ tbl_result.columns = <<ItemLabel, Y2023, Y2022>>

\* C7 (amended): on the table of Scenario B the merge pass yields
\* ["Revenue","$100"] and ["%","5"] (the "%" joins the cell before it, the
\* empty one), and the codec's columns are ["Item","2023"]: the third column
\* has no data in the padded body rows and is pruned.
C7_ScenarioB ==
    (tbl_pc = "done" /\ table = ScenarioB) =>
        /\ tbl_rows[2] = <<Revenue, <<"$", "1", "0", "0">>>>
        /\ tbl_rows[3] = <<<<"%">>, <<"5">>>>
        /\ ~tbl_result.none
        /\ tbl_result.columns = <<ItemLabel, Y2023>>
        /\ tbl_result.rows = << <<Revenue, <<"$", "1", "0", "0">>>>, <<<<"%">>, <<"5">>>> >>

\* The table of Scenario B has been canonicalized.
C7_Witness ==
    /\ tbl_pc = "done"
    /\ table = ScenarioB
    /\ Len(tbl_rows) = 3
    /\ ~tbl_result.none

\* C8 (as claimed): the column labels _set_headers gives are pairwise
\* distinct and the first is "Item".
C8_UniqueColumns ==
    (tbl_pc = "done" /\ ~tbl_result.none) =>
        /\ tbl_result.columns[1] = ItemLabel
        /\ \A j, k \in 1..Len(tbl_result.columns) :
              j # k => tbl_result.columns[j] # tbl_result.columns[k]

---------------------------------------------------------------------------
(* Table Canonicalizer, one section: clean_and_replace_tables,             *)
(* data_cleaning.py:129-155                                                *)
(*                                                                         *)
(* The section's markup tree is a sequence of nodes in document order.  A  *)
(* node has a kind ("div", "table", "text", "script"), a parent (an        *)
(* earlier node, or Root) and, for a table, what _process_table makes of   *)
(* its cells: "none" (no non-blank row: None), "header" (a header without  *)
(* rows: an empty frame) or "data" (a frame with rows).  A div holds any   *)
(* node, a table holds the divs and tables nested in its cells.            *)

MaxNodes == 3

Root == 0
NoParent == -1

\* The ancestors of node n by the parent links `par`, nearest first.
RECURSIVE Ancestors(_, _)
Ancestors(par, n) ==
    IF par[n] = Root \/ par[n] = NoParent THEN <<>>
    ELSE <<par[n]>> \o Ancestors(par, par[n])

NodeKinds ==
    { [kind |-> "div", cells |-> "none"], [kind |-> "text", cells |-> "none"],
      [kind |-> "script", cells |-> "none"], [kind |-> "table", cells |-> "none"],
      [kind |-> "table", cells |-> "header"], [kind |-> "table", cells |-> "data"] }

\* Where a node of kind k may be added after the last node of tree t: under
\* the root, under the last node or under one of its ancestors, if that is a
\* div, or a table taking a div or a table.
ParentsFor(t, k) ==
    IF t = <<>> THEN {Root}
    ELSE LET par == [n \in 1..Len(t) |-> t[n].parent]
             chain == <<Len(t)>> \o Ancestors(par, Len(t))
         IN  {Root} \cup
             {chain[j] : j \in {i \in 1..Len(chain) :
                 \/ t[chain[i]].kind = "div"
                 \/ t[chain[i]].kind = "table" /\ k \in {"div", "table"}}}

RECURSIVE TreesOf(_)
TreesOf(n) ==
    IF n = 0 THEN {<<>>}
    ELSE UNION { { Append(tk[1], [kind |-> tk[2].kind, cells |-> tk[2].cells, parent |-> p]) :
                       p \in ParentsFor(tk[1], tk[2].kind) } :
                 tk \in TreesOf(n - 1) \X NodeKinds }

Trees == UNION {TreesOf(n) : n \in 1..MaxNodes}

\* self.soup.find_all("table"): the tables in document order (data_cleaning.py:132).
RECURSIVE TablesFrom(_, _)
TablesFrom(t, n) ==
    IF n > Len(t) THEN <<>>
    ELSE (IF t[n].kind = "table" THEN <<n>> ELSE <<>>) \o TablesFrom(t, n + 1)

\* table.find_parent("div") or table (data_cleaning.py:144): the nearest div
\* among the ancestors the table has now, or the table.
TargetOf(t, par, tb) ==
    LET anc == Ancestors(par, tb)
        divs == {j \in 1..Len(anc) : t[anc[j]].kind = "div"}
    IN  IF divs = {} THEN tb
        ELSE anc[CHOOSE j \in divs : \A i \in divs : j <= i]

\* df is None or df.empty (data_cleaning.py:135-136)
NoFrame(node) == node.cells # "data"

\* self.soup.get_text(" ", strip=True) below node x, after the script nodes
\* are decomposed (data_cleaning.py:151-155), as the sequence of its pieces:
\* a text node, a sentinel block with its id, or the cells of a table left
\* in place.  The sentinel of a replaced node stands at that node's place.
RECURSIVE TextBelow(_, _, _, _, _)
TextBelow(t, par, sent, x, n) ==
    IF n > Len(t) THEN <<>>
    ELSE (IF \E k \in 1..Len(sent) : sent[k].at = n /\ sent[k].parent = x
          THEN LET k == CHOOSE k \in 1..Len(sent) : sent[k].at = n /\ sent[k].parent = x
               IN  <<[piece |-> "sentinel", of |-> sent[k].id]>>
          ELSE IF par[n] # x THEN <<>>
          ELSE IF t[n].kind = "text" THEN <<[piece |-> "text", of |-> n]>>
          ELSE IF t[n].kind = "script" THEN <<>>
          ELSE IF t[n].kind = "div" THEN TextBelow(t, par, sent, n, n + 1)
          ELSE (IF t[n].cells = "none" THEN <<>> ELSE <<[piece |-> "cells", of |-> n]>>)
               \o TextBelow(t, par, sent, n, n + 1))
         \o TextBelow(t, par, sent, x, n + 1)

CleanIdle ==
    /\ tree = <<>>
    /\ cur_parent = <<>>
    /\ tables = <<>>
    /\ table_i = 1
    /\ clean_table_id = 1
    /\ sentinels = <<>>
    /\ clean_text = <<>>
    /\ clean_pc = "idle"

CleanInit ==
    /\ tree \in Trees
    /\ cur_parent = [n \in 1..Len(tree) |-> tree[n].parent]
    /\ tables = TablesFrom(tree, 1)
    /\ table_i = 1
    /\ clean_table_id = 1
    /\ sentinels = <<>>
    /\ clean_text = <<>>
    /\ clean_pc = "tables"

\* The table is out of the tree, or its frame is None or empty: continue
\* (data_cleaning.py:133-136).
CleanSkipTable ==
    /\ clean_pc = "tables"
    /\ table_i <= Len(tables)
    /\ cur_parent[tables[table_i]] = NoParent \/ NoFrame(tree[tables[table_i]])
    /\ table_i' = table_i + 1
    /\ UNCHANGED <<tree, cur_parent, tables, clean_table_id, sentinels, clean_text, clean_pc,
                   exceptClean>>

\* target.replace_with(replacement): the sentinel div takes the place of the
\* target under the target's parent, and the target, with all it holds,
\* leaves the tree (data_cleaning.py:138-147).
CleanReplace ==
    /\ clean_pc = "tables"
    /\ table_i <= Len(tables)
    /\ cur_parent[tables[table_i]] # NoParent
    /\ ~NoFrame(tree[tables[table_i]])
    /\ \E target \in {TargetOf(tree, cur_parent, tables[table_i])} :
          /\ cur_parent[target] # NoParent
          /\ sentinels' = Append(sentinels,
                 [id |-> clean_table_id, at |-> target, parent |-> cur_parent[target],
                  table |-> tables[table_i]])
          /\ cur_parent' = [cur_parent EXCEPT ![target] = NoParent]
    /\ clean_table_id' = clean_table_id + 1
    /\ table_i' = table_i + 1
    /\ UNCHANGED <<tree, tables, clean_text, clean_pc, exceptClean>>

\* replace_with raises on a target that is not part of a tree: the exception
\* is caught and the id is not used (data_cleaning.py:145-149).
CleanReplaceFails ==
    /\ clean_pc = "tables"
    /\ table_i <= Len(tables)
    /\ cur_parent[tables[table_i]] # NoParent
    /\ ~NoFrame(tree[tables[table_i]])
    /\ cur_parent[TargetOf(tree, cur_parent, tables[table_i])] = NoParent
    /\ table_i' = table_i + 1
    /\ UNCHANGED <<tree, cur_parent, tables, clean_table_id, sentinels, clean_text, clean_pc,
                   exceptClean>>

\* The tables are exhausted: the non-text tags are decomposed and the text
\* of the tree is returned (data_cleaning.py:151-155).
CleanReturn ==
    /\ clean_pc = "tables"
    /\ table_i > Len(tables)
    /\ clean_text' = TextBelow(tree, cur_parent, sentinels, Root, 1)
    /\ clean_pc' = "done"
    /\ UNCHANGED <<tree, cur_parent, tables, table_i, clean_table_id, sentinels, exceptClean>>

CleanNext ==
    \/ CleanSkipTable
    \/ CleanReplace
    \/ CleanReplaceFails
    \/ CleanReturn

\* The parent links of the section as it was given.
GivenParent == [n \in 1..Len(tree) |-> tree[n].parent]

InsideTable(n) ==
    \E j \in 1..Len(Ancestors(GivenParent, n)) :
        tree[Ancestors(GivenParent, n)[j]].kind = "table"

InsideTableWithRows(n) ==
    \E j \in 1..Len(Ancestors(GivenParent, n)) :
        /\ tree[Ancestors(GivenParent, n)[j]].kind = "table"
        /\ tree[Ancestors(GivenParent, n)[j]].cells = "data"

\* The narrative text of the section as given, with a mark at the place of
\* every table that has a frame with rows and lies in no other such table.
RECURSIVE GivenFrom(_)
GivenFrom(n) ==
    IF n > Len(tree) THEN <<>>
    ELSE (IF tree[n].kind = "text" /\ ~InsideTable(n) THEN <<[piece |-> "text", of |-> n]>>
          ELSE IF tree[n].kind = "table" /\ tree[n].cells = "data" /\ ~InsideTableWithRows(n)
               THEN <<[piece |-> "sentinel", of |-> 0]>>
          ELSE <<>>)
         \o GivenFrom(n + 1)

\* A piece of the returned text that is narrative: a text node in no table.
\* The cells of a table left in place, and the text nested in them, are not.
IsNarrative(x) == x.piece = "text" /\ ~InsideTable(x.of)

\* The text returned, without what tables left in place contribute and with
\* the ids of the sentinel blocks blanked.
ReturnedShape ==
    LET kept == SelectSeq(clean_text, LAMBDA x : x.piece = "sentinel" \/ IsNarrative(x))
    IN  [j \in 1..Len(kept) |->
            IF kept[j].piece = "sentinel" THEN [piece |-> "sentinel", of |-> 0] ELSE kept[j]]

\* C9 (as claimed): the text returned, its sentinel blocks removed, is the
\* narrative text of the section in its order, and every sentinel block
\* stands at the place of the table it replaces, whatever the nesting of
\* tables and divs.
C9_NarrativeKept ==
    clean_pc = "done" =>
        /\ SelectSeq(clean_text, IsNarrative) = SelectSeq(GivenFrom(1), IsNarrative)
        /\ ReturnedShape = GivenFrom(1)

\* The first half of C9 alone: no narrative text is lost.
NarrativeKept ==
    clean_pc = "done" =>
        SelectSeq(clean_text, IsNarrative) = SelectSeq(GivenFrom(1), IsNarrative)

\* Sections in which no table with rows has a div above it.
NoDivAboveTable ==
    \A n \in 1..Len(tree) :
        tree[n].kind = "table" /\ tree[n].cells = "data" =>
            \A j \in 1..Len(Ancestors(GivenParent, n)) :
                tree[Ancestors(GivenParent, n)[j]].kind # "div"

C9_HoldsWithoutDivs == NoDivAboveTable => C9_NarrativeKept

\* The ids of the sentinel blocks of the returned text, in its order.
ReturnedIds ==
    LET blocks == SelectSeq(clean_text, LAMBDA x : x.piece = "sentinel")
    IN  [j \in 1..Len(blocks) |-> blocks[j].of]

\* The tables whose replacement was made, in the order of processing.
ReplacedTables == [j \in 1..Len(sentinels) |-> sentinels[j].table]

IdsOfReplacements ==
    /\ \A k \in 1..Len(sentinels) : sentinels[k].id = k
    /\ clean_table_id = Len(sentinels) + 1
    /\ \A k \in 1..(Len(sentinels) - 1) : sentinels[k].table < sentinels[k + 1].table
    /\ \A k \in 1..Len(sentinels) : ~NoFrame(tree[sentinels[k].table])

\* The ids of the returned text increase strictly.
ReturnedIdsIncrease ==
    \A j \in 1..(Len(ReturnedIds) - 1) : ReturnedIds[j] < ReturnedIds[j + 1]

---------------------------------------------------------------------------
(* Batch of filings: process_and_chunk_files, chunking.py:137-228          *)
(*                                                                         *)
(* The directory is the sequence of its entries in the order os.listdir    *)
(* gives them: a ticker without a 10-K directory, or a folder of a ticker. *)
(* An entry says what parse_10k does on its text file: it raises, or it    *)
(* returns the sections, each given by the chunks recursive_chunk_text     *)
(* makes of it, and each chunk by the parts JSON_TABLE_PATTERN.split makes *)
(* of it (text parts at the even positions, table parts at the odd ones).  *)

MaxFilings == 3

NoMatch == -1
TableRowsPerChunk == 3

\* chunking.py:162
Year(year_2digit) ==
    IF year_2digit >= 90 THEN 1900 + year_2digit ELSE 2000 + year_2digit

\* The continue statements before the parse (chunking.py:151-170).
Skipped(e) ==
    \/ ~e.has_10k
    \/ ~e.is_dir
    \/ e.yy = NoMatch
    \/ Year(e.yy) <= 2016
    \/ ~e.has_txt

\* str.replace(old, new) on a text
RECURSIVE Replace(_, _, _)
Replace(s, old, new) ==
    IF Len(s) < Len(old) THEN s
    ELSE IF SubSeq(s, 1, Len(old)) = old
         THEN new \o Replace(SubSeq(s, Len(old) + 1, Len(s)), old, new)
         ELSE <<Head(s)>> \o Replace(Tail(s), old, new)

RawItemWord == <<"r", "a", "w", "_", "i", "t", "e", "m">>
ItemWord == <<"i", "t", "e", "m">>
ChunkWord == <<"c", "h", "u", "n", "k">>
TableWord == <<"_", "t", "a", "b", "l", "e">>
PartWord == <<"_", "p", "a", "r", "t">>

\* item_name.replace('raw_item', 'item') (chunking.py:183)
ItemOf(item_name) == Replace(item_name, RawItemWord, ItemWord)

\* f"{ticker}_{year}_{item}" (chunking.py:183)
DocId(ticker, year, item_name) ==
    ticker \o <<"_">> \o IntToStr(year) \o <<"_">> \o ItemOf(item_name)

\* The return value of split_json_table_by_rows (chunking.py:50-75).
RECURSIVE SplitFrom(_, _, _)
SplitFrom(data, i, k) ==
    IF i >= Len(data.rows) THEN <<>>
    ELSE <<SplitPayload(data, i, k)>> \o SplitFrom(data, i + k, k)

SplitResult(data, k) ==
    IF ~Parseable(data) \/ data.rows = <<>> THEN <<data>> ELSE SplitFrom(data, 0, k)

\* f'chunk{chunk_idx}_table{j}' (chunking.py:211) and
\* f'chunk{chunk_idx}_part{part_idx}' (chunking.py:224)
TableChunkIdxOfChunk(chunk_idx, j) == ChunkWord \o IntToStr(chunk_idx) \o TableWord \o IntToStr(0)
TableChunkIdx(chunk_idx, j) == ChunkWord \o IntToStr(chunk_idx) \o TableWord \o IntToStr(j)
PartChunkIdx(chunk_idx, part_idx) ==
    ChunkWord \o IntToStr(chunk_idx) \o PartWord \o IntToStr(part_idx)

\* The record appended at chunking.py:206-214 and 219-227.
ChunkRecord(ticker, year, item_name, idx, is_table, text) ==
    [doc_id    |-> DocId(ticker, year, item_name),
     company   |-> ticker,
     year      |-> year,
     item      |-> ItemOf(item_name),
     chunk_idx |-> idx,
     is_table  |-> is_table,
     text      |-> text]

\* The records of one part of a chunk (chunking.py:192-227); chunk_idx and
\* part_idx count from 0.
RowsOfPart(ticker, year, item_name, chunk_idx, part_idx, part) ==
    IF Strip(part.text) = <<>> THEN <<>>
    ELSE IF part_idx % 2 = 1
    THEN IF extract_json_from_chunk(Strip(part.text)) = <<>> THEN <<>>
         ELSE LET table_chunks == SplitResult(part.data, TableRowsPerChunk)
              IN  [j \in 1..Len(table_chunks) |->
                      ChunkRecord(ticker, year, item_name, TableChunkIdx(chunk_idx, j - 1),
                                  TRUE, table_chunks[j])]
    ELSE <<ChunkRecord(ticker, year, item_name, PartChunkIdx(chunk_idx, part_idx),
                       FALSE, Strip(part.text))>>

\* The records of one chunk, of one section and of one filing
\* (chunking.py:182-227).
RowsOfChunk(ticker, year, item_name, chunk_idx, chunk) ==
    Flatten([p \in 1..Len(chunk) |->
        RowsOfPart(ticker, year, item_name, chunk_idx, p - 1, chunk[p])])

RowsOfSection(ticker, year, section) ==
    Flatten([c \in 1..Len(section.chunks) |->
        RowsOfChunk(ticker, year, section.item_name, c - 1, section.chunks[c])])

RowsOfFiling(e) ==
    Flatten([s \in 1..Len(e.items) |-> RowsOfSection(e.ticker, Year(e.yy), e.items[s])])

\* The continue of the except branch (chunking.py:177-179): the loop goes on
\* with the next folder.
BreakAfterParseError(i) == Len(entries) + 1
ContinueAfterParseError(i) == i + 1

\* ---- the inputs
TextPart(s) == [text |-> s, data |-> Unparseable]
TablePart(rows) ==
    [text |-> <<"{", "}">>,
     data |-> [ok |-> TRUE, table_id |-> 1, columns |-> <<"Item", "2023">>, rows |-> rows]]

SectionPool ==
    [one  |-> [item_name |-> <<"r", "a", "w", "_", "i", "t", "e", "m", "1", "a">>,
               chunks |-> << <<TextPart(<<"a">>)>> >>],
     two  |-> [item_name |-> <<"r", "a", "w", "_", "i", "t", "e", "m", "7">>,
               chunks |-> << <<TextPart(<<" ", "b">>), TablePart(<<"r1", "r2", "r3", "r4">>),
                               TextPart(<<" ">>)>>,
                             <<TextPart(<<"c">>)>> >>]]

Folder(ticker, yy, parse, items) ==
    [ticker |-> ticker, has_10k |-> TRUE, is_dir |-> TRUE, yy |-> yy, has_txt |-> TRUE,
     parse |-> parse, items |-> items]

AAPL == <<"A", "A", "P", "L">>
MSFT == <<"M", "S", "F", "T">>

EntryPool ==
    { Folder(AAPL, 22, "ok", <<SectionPool.one, SectionPool.two>>),
      Folder(MSFT, 17, "ok", <<SectionPool.one>>),
      Folder(MSFT, 18, "ok", <<>>),
      Folder(AAPL, 23, "raise", <<>>),
      Folder(MSFT, 16, "ok", <<SectionPool.one>>),
      Folder(AAPL, 95, "ok", <<SectionPool.one>>),
      Folder(AAPL, NoMatch, "ok", <<SectionPool.one>>),
      [Folder(AAPL, 21, "ok", <<SectionPool.one>>) EXCEPT !.has_txt = FALSE],
      [Folder(AAPL, 20, "ok", <<SectionPool.one>>) EXCEPT !.is_dir = FALSE],
      [Folder(MSFT, 19, "ok", <<SectionPool.one>>) EXCEPT !.has_10k = FALSE] }

BatchIdle ==
    /\ base_exists = FALSE
    /\ entries = <<>>
    /\ batch_i = 1
    /\ all_rows = <<>>
    /\ batch_result = <<>>
    /\ batch_pc = "idle"

BatchInit ==
    /\ base_exists \in BOOLEAN
    /\ entries \in (IF base_exists THEN SeqsOf(EntryPool, 0, MaxFilings) ELSE {<<>>})
    /\ batch_i = 1
    /\ all_rows = <<>>
    /\ batch_result = <<>>
    /\ batch_pc = "loop"

batchFixed == <<base_exists, entries>>

\* chunking.py:145-147
BatchNoDirectory ==
    /\ batch_pc = "loop"
    /\ ~base_exists
    /\ batch_result' = <<>>
    /\ batch_pc' = "done"
    /\ UNCHANGED <<batchFixed, batch_i, all_rows, exceptBatch>>

\* chunking.py:151-170
BatchSkipEntry ==
    /\ batch_pc = "loop"
    /\ base_exists
    /\ batch_i <= Len(entries)
    /\ Skipped(entries[batch_i])
    /\ batch_i' = batch_i + 1
    /\ UNCHANGED <<batchFixed, all_rows, batch_result, batch_pc, exceptBatch>>

\* chunking.py:175-179: parse_10k raises, the exception is caught
BatchParseError ==
    /\ batch_pc = "loop"
    /\ base_exists
    /\ batch_i <= Len(entries)
    /\ ~Skipped(entries[batch_i])
    /\ entries[batch_i].parse = "raise"
    /\ batch_i' = ContinueAfterParseError(batch_i)
    /\ UNCHANGED <<batchFixed, all_rows, batch_result, batch_pc, exceptBatch>>

\* chunking.py:175-227: parse_10k returns, the records of the sections are
\* appended
BatchProcessFiling ==
    /\ batch_pc = "loop"
    /\ base_exists
    /\ batch_i <= Len(entries)
    /\ ~Skipped(entries[batch_i])
    /\ entries[batch_i].parse = "ok"
    /\ all_rows' = all_rows \o RowsOfFiling(entries[batch_i])
    /\ batch_i' = batch_i + 1
    /\ UNCHANGED <<batchFixed, batch_result, batch_pc, exceptBatch>>

\* chunking.py:228
BatchReturn ==
    /\ batch_pc = "loop"
    /\ base_exists
    /\ batch_i > Len(entries)
    /\ batch_result' = all_rows
    /\ batch_pc' = "done"
    /\ UNCHANGED <<batchFixed, batch_i, all_rows, exceptBatch>>

BatchNext ==
    \/ BatchNoDirectory
    \/ BatchSkipEntry
    \/ BatchParseError
    \/ BatchProcessFiling
    \/ BatchReturn

\* A filing whose parsing raises.
Fails(e) == ~Skipped(e) /\ e.parse = "raise"

\* A filing that contributes records.
Contributes(e) == ~Skipped(e) /\ e.parse = "ok" /\ RowsOfFiling(e) # <<>>

\* What a run returns on a directory none of whose filings fails.
RECURSIVE RunWithoutFailure(_)
RunWithoutFailure(es) ==
    IF es = <<>> THEN <<>>
    ELSE (IF Skipped(Head(es)) THEN <<>> ELSE RowsOfFiling(Head(es)))
         \o RunWithoutFailure(Tail(es))

WithoutFailing(es) == SelectSeq(es, LAMBDA e : ~Fails(e))

IsPrefix(s, t) == Len(s) <= Len(t) /\ SubSeq(t, 1, Len(s)) = s

\* C10: a filing whose parsing raises does not abort the run and contributes
\* no record; the records accumulated are those of the run over the same
\* filings without the failing ones, the run ends only when every entry has
\* been visited, and no step removes a record already accumulated.
C10_FailingFilingSkipped ==
    /\ [](/\ all_rows = RunWithoutFailure(WithoutFailing(SubSeq(entries, 1, batch_i - 1)))
          /\ batch_pc = "done" /\ base_exists =>
                /\ batch_i = Len(entries) + 1
                /\ batch_result = RunWithoutFailure(WithoutFailing(entries)))
    /\ [][IsPrefix(all_rows, all_rows')]_vars

\* A run that ended on a directory with a failing filing between two filings
\* that contribute records.
C10_Witness ==
    /\ batch_pc = "done"
    /\ \E i, j, k \in 1..Len(entries) :
          /\ i < j /\ j < k
          /\ Contributes(entries[i]) /\ Fails(entries[j]) /\ Contributes(entries[k])
    /\ Len(batch_result) >= 2

---------------------------------------------------------------------------
(* The pipeline after chunking: main, main.py:31-90, with                  *)
(* Embedder.generate_embeddings, embedder.py:16-43                         *)
(*                                                                         *)
(* A vector is named by the position of the text it embeds.  What          *)
(* model.encode does on a processing batch is one of: it returns a vector  *)
(* per text, it returns one vector less or one more, or it raises.  What   *)
(* the database does with a row is given by db_policy.                     *)

MaxRecords == 56

EmbedChunkSize == 50

RowWord == <<"_", "r", "o", "w">>

\* json.loads(row["text"]) (main.py:46) raises on the texts json.loads of
\* split_json_table_by_rows raised on; a payload built there always loads.
Loads(text) == IF "ok" \in DOMAIN text THEN text.ok ELSE TRUE

\* flatten_table_row_financial (data_cleaning.py:157-176)
FlattenRow(r) == [flat |-> r]

\* The rows one record adds to row_mapping (main.py:43-62).
RowsForRecord(row) ==
    IF row.is_table /\ Loads(row.text)
    THEN [j \in 1..Len(row.text.rows) |->
             [row EXCEPT !.chunk_idx = row.chunk_idx \o RowWord \o IntToStr(j - 1),
                         !.text = FlattenRow(row.text.rows[j])]]
    ELSE <<row>>

\* The texts one record adds to texts_for_embedding (main.py:43-62).
TextsForRecord(row) ==
    IF row.is_table /\ Loads(row.text)
    THEN [j \in 1..Len(row.text.rows) |-> FlattenRow(row.text.rows[j])]
    ELSE <<row.text>>

RowMapping(rows) == Flatten([i \in 1..Len(rows) |-> RowsForRecord(rows[i])])
TextsForEmbedding(rows) == Flatten([i \in 1..Len(rows) |-> TextsForRecord(rows[i])])

\* len(embeddings) != len(row_mapping) (main.py:68)
CountsNeverDiffer(embs, rows) == FALSE
CountsDiffer(embs, rows) == Len(embs) # Len(rows)

\* The payload of main.py:73-86; zip stops at the shorter list.
FinalRows(embs, rows) ==
    [j \in 1..Min2(Len(embs), Len(rows)) |->
        [doc_id      |-> rows[j].doc_id,
         chunk_index |-> rows[j].chunk_idx,
         content     |-> rows[j].text,
         metadata    |-> [company |-> rows[j].company, year |-> rows[j].year,
                          item |-> rows[j].item, is_table |-> rows[j].is_table],
         embedding   |-> embs[j]]]

\* The rows the database keeps of an upload.
DbPolicies == {"accept_all", "reject_tables", "reject_all"}
Accepted(policy, r) ==
    \/ policy = "accept_all"
    \/ policy = "reject_tables" /\ ~r.metadata.is_table

\* ---- the inputs: the records of a section with a text and a table of nine
\* rows, a table record that does not load and a table record without rows,
\* repeated; and a run of table records without rows.
MainSection ==
    [item_name |-> <<"r", "a", "w", "_", "i", "t", "e", "m", "7">>,
     chunks |-> << <<TextPart(<<"a">>),
                     TablePart(<<"r1", "r2", "r3", "r4", "r5", "r6", "r7", "r8", "r9">>)>> >>]

MainPattern ==
    RowsOfSection(AAPL, 2022, MainSection)
    \o <<ChunkRecord(AAPL, 2022, MainSection.item_name,
             ChunkWord \o IntToStr(1) \o TableWord \o IntToStr(0), TRUE, Unparseable),
         ChunkRecord(AAPL, 2022, MainSection.item_name,
             ChunkWord \o IntToStr(2) \o TableWord \o IntToStr(0), TRUE,
             [Unparseable EXCEPT !.ok = TRUE])>>

EmptyTablePattern ==
    <<ChunkRecord(AAPL, 2022, MainSection.item_name,
          ChunkWord \o IntToStr(0) \o TableWord \o IntToStr(0), TRUE,
          [Unparseable EXCEPT !.ok = TRUE])>>

Cycle(pattern, n) == [i \in 1..n |-> pattern[((i - 1) % Len(pattern)) + 1]]

\* main_rows is one of the inputs.
MainInputs(rows) ==
    \/ \E n \in 0..MaxRecords : rows = Cycle(MainPattern, n)
    \/ \E n \in 1..2 : rows = Cycle(EmptyTablePattern, n)

MainIdle ==
    /\ main_rows = <<>>
    /\ db_policy = "accept_all"
    /\ row_mapping = <<>>
    /\ texts_for_embedding = <<>>
    /\ emb_i = 0
    /\ all_embeddings = <<>>
    /\ encode_log = <<>>
    /\ embeddings = <<>>
    /\ final_rows = <<>>
    /\ upload_invoked = FALSE
    /\ db_rows = <<>>
    /\ main_pc = "idle"

MainInit ==
    /\ MainInputs(main_rows)
    /\ db_policy \in DbPolicies
    /\ row_mapping = <<>>
    /\ texts_for_embedding = <<>>
    /\ emb_i = 0
    /\ all_embeddings = <<>>
    /\ encode_log = <<>>
    /\ embeddings = <<>>
    /\ final_rows = <<>>
    /\ upload_invoked = FALSE
    /\ db_rows = <<>>
    /\ main_pc = "start"

mainFixed == <<main_rows, db_policy>>
mainPrep == <<row_mapping, texts_for_embedding>>
mainEmbed == <<emb_i, all_embeddings, encode_log, embeddings>>
mainStore == <<final_rows, upload_invoked, db_rows>>

\* main.py:31-33
MainNoData ==
    /\ main_pc = "start"
    /\ main_rows = <<>>
    /\ main_pc' = "done"
    /\ UNCHANGED <<mainFixed, mainPrep, mainEmbed, mainStore, exceptMain>>

\* main.py:40-62
MainPrepare ==
    /\ main_pc = "start"
    /\ main_rows # <<>>
    /\ row_mapping' = RowMapping(main_rows)
    /\ texts_for_embedding' = TextsForEmbedding(main_rows)
    /\ main_pc' = "embed"
    /\ UNCHANGED <<mainFixed, mainEmbed, mainStore, exceptMain>>

BatchTexts == Slice(texts_for_embedding, emb_i, emb_i + EmbedChunkSize)

\* embedder.py:25-34: encode returns a vector for each text of the batch
EmbedBatch ==
    /\ main_pc = "embed"
    /\ emb_i < Len(texts_for_embedding)
    /\ all_embeddings' = all_embeddings \o [j \in 1..Len(BatchTexts) |-> emb_i + j]
    /\ encode_log' = Append(encode_log, "ok")
    /\ emb_i' = emb_i + EmbedChunkSize
    /\ UNCHANGED <<mainFixed, mainPrep, embeddings, main_pc, mainStore, exceptMain>>

\* embedder.py:25-34: encode returns one vector less, or one more
EmbedBatchMiscount ==
    /\ main_pc = "embed"
    /\ emb_i < Len(texts_for_embedding)
    /\ \E d \in {-1, 1} :
          /\ all_embeddings' = all_embeddings \o [j \in 1..(Len(BatchTexts) + d) |-> emb_i + j]
          /\ encode_log' = Append(encode_log, IF d < 0 THEN "short" ELSE "long")
    /\ emb_i' = emb_i + EmbedChunkSize
    /\ UNCHANGED <<mainFixed, mainPrep, embeddings, main_pc, mainStore, exceptMain>>

\* embedder.py:35-38: encode raises, generate_embeddings returns []
EmbedBatchRaises ==
    /\ main_pc = "embed"
    /\ emb_i < Len(texts_for_embedding)
    /\ encode_log' = Append(encode_log, "raise")
    /\ embeddings' = <<>>
    /\ main_pc' = "compare"
    /\ UNCHANGED <<mainFixed, mainPrep, emb_i, all_embeddings, mainStore, exceptMain>>

\* embedder.py:43
EmbedReturn ==
    /\ main_pc = "embed"
    /\ emb_i >= Len(texts_for_embedding)
    /\ embeddings' = all_embeddings
    /\ main_pc' = "compare"
    /\ UNCHANGED <<mainFixed, mainPrep, emb_i, all_embeddings, encode_log, mainStore, exceptMain>>

\* main.py:68-70
MainMismatch ==
    /\ main_pc = "compare"
    /\ CountsDiffer(embeddings, row_mapping)
    /\ main_pc' = "done"
    /\ UNCHANGED <<mainFixed, mainPrep, mainEmbed, mainStore, exceptMain>>

\* main.py:89 with database.py:13-14: VectorDB() raises
MainNoDatabase ==
    /\ main_pc = "compare"
    /\ ~CountsDiffer(embeddings, row_mapping)
    /\ final_rows' = FinalRows(embeddings, row_mapping)
    /\ main_pc' = "done"
    /\ UNCHANGED <<mainFixed, mainPrep, mainEmbed, upload_invoked, db_rows, exceptMain>>

\* main.py:72-90
MainUpload ==
    /\ main_pc = "compare"
    /\ ~CountsDiffer(embeddings, row_mapping)
    /\ final_rows' = FinalRows(embeddings, row_mapping)
    /\ upload_invoked' = TRUE
    /\ db_rows' = SelectSeq(final_rows', LAMBDA r : Accepted(db_policy, r))
    /\ main_pc' = "done"
    /\ UNCHANGED <<mainFixed, mainPrep, mainEmbed, exceptMain>>

MainNext ==
    \/ MainNoData
    \/ MainPrepare
    \/ EmbedBatch
    \/ EmbedBatchMiscount
    \/ EmbedBatchRaises
    \/ EmbedReturn
    \/ MainMismatch
    \/ MainNoDatabase
    \/ MainUpload

\* The embedding of some processing batch failed.
EmbeddingFailed == \E j \in 1..Len(encode_log) : encode_log[j] = "raise"

\* C11: the upload is invoked only with as many vectors as rows to store;
\* once the embedding of a batch failed, and whenever the counts differ
\* after the embedding, the upload is never invoked and the database holds
\* no row.
C11_NoPartialWrite ==
    /\ upload_invoked => Len(embeddings) = Len(row_mapping)
    /\ upload_invoked => Len(final_rows) = Len(row_mapping)
    /\ EmbeddingFailed => ~upload_invoked /\ db_rows = <<>>
    /\ main_pc = "done" /\ Len(embeddings) # Len(row_mapping) =>
          ~upload_invoked /\ db_rows = <<>>

\* A run that stopped after the third processing batch failed, with rows to
\* store and nothing written.
C11_Witness ==
    /\ main_pc = "done"
    /\ encode_log = <<"ok", "ok", "raise">>
    /\ Len(row_mapping) > 2 * EmbedChunkSize
    /\ ~upload_invoked
    /\ db_rows = <<>>

\* A run that uploaded.
MainUploaded ==
    main_pc = "done" /\ upload_invoked /\ encode_log = <<"ok", "ok", "ok">> /\ db_rows # <<>>

---------------------------------------------------------------------------
(* The records of one section: recursive_chunk_text followed by the loop   *)
(* of process_and_chunk_files over its chunks (chunking.py:186-227) and by *)
(* the loop of main over the records (main.py:43-62)                       *)
(*                                                                         *)
(* The JSON of a table is held as "{" + one letter per row + "}"; any      *)
(* other text is one json.loads raises on.                                 *)

DigitSet == {DigitChars[d] : d \in 1..Len(DigitChars)}

\* The first position from p on whose character is not in `set`.
RECURSIVE SkipWhile(_, _, _)
SkipWhile(s, p, set) ==
    IF p <= Len(s) /\ s[p] \in set THEN SkipWhile(s, p + 1, set) ELSE p

\* prefix\s+\d+\] at position p of s: the position after the match, or 0.
MatchTag(s, p, prefix) ==
    LET a == p + Len(prefix)
        b == SkipWhile(s, a, {c \in {" ", "\n", "\t"} : IsSpace(c)})
        c == SkipWhile(s, b, DigitSet)
    IN  IF /\ a - 1 <= Len(s)
           /\ SubSeq(s, p, a - 1) = prefix
           /\ b > a
           /\ c > b
           /\ c <= Len(s)
           /\ s[c] = "]"
        THEN c + 1
        ELSE 0

\* The first position from p on where the tag matches, or 0.
RECURSIVE FirstTag(_, _, _)
FirstTag(s, p, prefix) ==
    IF p > Len(s) THEN 0
    ELSE IF MatchTag(s, p, prefix) # 0 THEN p
    ELSE FirstTag(s, p + 1, prefix)

\* JSON_TABLE_PATTERN.split(chunk) (chunking.py:10-13 and 190): the text
\* before a block, the group of the block, and so on from the end of the
\* block; the group is lazy, it ends at the first end tag.
RECURSIVE SplitBlocks(_, _)
SplitBlocks(s, p) ==
    LET q == FirstTag(s, p, StartTagPrefix)
        e == IF q = 0 THEN 0 ELSE MatchTag(s, q, StartTagPrefix)
        r == IF e = 0 THEN 0 ELSE FirstTag(s, e, EndTagPrefix)
    IN  IF r = 0 THEN <<SubSeq(s, p, Len(s))>>
        ELSE <<SubSeq(s, p, q - 1), SubSeq(s, e, r - 1)>>
             \o SplitBlocks(s, MatchTag(s, r, EndTagPrefix))

RowLetters == {"a", "b", "c", "d", "x"}

\* json.loads on the text of a table (chunking.py:53)
ParseJson(t) ==
    IF /\ Len(t) >= 2
       /\ t[1] = "{"
       /\ t[Len(t)] = "}"
       /\ \A j \in 2..(Len(t) - 1) : t[j] \in RowLetters
    THEN [ok |-> TRUE, table_id |-> 1, columns |-> <<>>,
          rows |-> SubSeq(t, 2, Len(t) - 1)]
    ELSE Unparseable

\* The parts of a chunk, each with what json.loads makes of the JSON in it.
PartsOf(chunk) ==
    LET parts == SplitBlocks(chunk, 1)
    IN  [p \in 1..Len(parts) |->
            [text |-> parts[p], data |-> ParseJson(extract_json_from_chunk(Strip(parts[p])))]]

SectionTicker == <<"A", "A", "P", "L">>
SectionItem == <<"r", "a", "w", "_", "i", "t", "e", "m", "7">>

\* The records of the chunks of a section (chunking.py:186-227).
SectionRows(chunks) ==
    Flatten([c \in 1..Len(chunks) |->
        RowsOfChunk(SectionTicker, Year(22), SectionItem, c - 1, PartsOf(chunks[c]))])

\* chunking.py:186-227 on the chunks returned, then main.py:43-62
ChunkEmitRecords ==
    /\ chunk_pc = "done"
    /\ section_rows' = SectionRows(chunk_result)
    /\ section_row_mapping' = RowMapping(section_rows')
    /\ chunk_pc' = "emitted"
    /\ UNCHANGED <<chunkArgs, seg_i, paragraphs, para_i, chunkPack, final_chunks,
                   chunk_table_id, chunk_src, chunkOut, exceptChunk>>

ChunkNext ==
    \/ ChunkSkipSegment
    \/ ChunkTableSegment
    \/ ChunkTextSegment
    \/ ChunkSkipPara
    \/ ChunkShortPara
    \/ ChunkLongPara
    \/ ChunkPackFlush
    \/ ChunkPackAppend
    \/ ChunkFinalFlush
    \/ ChunkEndParas
    \/ ChunkReturn
    \/ ChunkEmitRecords

\* The number a run of digits denotes.
RECURSIVE StrToInt(_)
StrToInt(ds) ==
    IF ds = <<>> THEN 0
    ELSE 10 * StrToInt(SubSeq(ds, 1, Len(ds) - 1))
         + (CHOOSE d \in 0..9 : DigitChars[d + 1] = ds[Len(ds)])

\* The numbers in a chunk_idx, in order.
RECURSIVE NumbersFrom(_, _)
NumbersFrom(s, p) ==
    IF p > Len(s) THEN <<>>
    ELSE IF s[p] \in DigitSet
         THEN LET e == SkipWhile(s, p, DigitSet)
              IN  <<StrToInt(SubSeq(s, p, e - 1))>> \o NumbersFrom(s, e)
         ELSE NumbersFrom(s, p + 1)

LexLess(a, b) == a[1] < b[1] \/ (a[1] = b[1] /\ a[2] < b[2])
LexLessEq(a, b) == a = b \/ LexLess(a, b)

Distinct(ids) == \A i, j \in 1..Len(ids) : i # j => ids[i] # ids[j]

\* The records with chunk number c.
RowsOfNumber(c) ==
    SelectSeq(section_rows, LAMBDA r : NumbersFrom(r.chunk_idx, 1)[1] = c)

\* The records with chunk number c hold the content of the chunk of that
\* number: its text, or the rows of its table in their order.
HoldsChunk(c) ==
    LET rs == RowsOfNumber(c)
        chunk == chunk_result[c + 1]
        data == ParseJson(extract_json_from_chunk(chunk))
    IN  IF rs = <<>> THEN FALSE
        ELSE IF rs[1].is_table
        THEN /\ HasStartTag(chunk)
             /\ \A j \in 1..Len(rs) : rs[j].is_table
             /\ IF data.ok /\ data.rows # <<>>
                THEN Flatten([j \in 1..Len(rs) |-> rs[j].text.rows]) = data.rows
                ELSE rs = <<[rs[1] EXCEPT !.text = data]>>
        ELSE rs = <<[rs[1] EXCEPT !.text = Strip(chunk)]>>

\* C12: along the records of a section the numbers of chunk_idx (chunk
\* number, then table or part number) increase strictly in lexicographic
\* order; the records of chunk number c hold the content of the c-th chunk,
\* and the chunks are in the order of the document; no two records share a
\* chunk_idx, neither as appended nor after main added the _row suffix.
C12_ChunkIdxOrder ==
    chunk_pc = "emitted" =>
        /\ \A i \in 1..(Len(section_rows) - 1) :
              LexLess(NumbersFrom(section_rows[i].chunk_idx, 1),
                      NumbersFrom(section_rows[i + 1].chunk_idx, 1))
        /\ \A i \in 1..Len(section_rows) :
              /\ Len(NumbersFrom(section_rows[i].chunk_idx, 1)) = 2
              /\ NumbersFrom(section_rows[i].chunk_idx, 1)[1] < Len(chunk_result)
        /\ \A c \in 0..(Len(chunk_result) - 1) : HoldsChunk(c)
        /\ \A j \in 1..(Len(result_src) - 1) : LexLessEq(result_src[j], result_src[j + 1])
        /\ Distinct([i \in 1..Len(section_rows) |-> section_rows[i].chunk_idx])
        /\ Distinct([i \in 1..Len(section_row_mapping) |-> section_row_mapping[i].chunk_idx])

\* A section with text, a table of four rows and text again: the table gives
\* two records, and main makes four rows of them.
C12_Witness ==
    /\ chunk_pc = "emitted"
    /\ Len(chunk_result) = 3
    /\ Len(section_rows) = 4
    /\ section_rows[2].is_table /\ section_rows[3].is_table
    /\ ~section_rows[1].is_table /\ ~section_rows[4].is_table
    /\ Len(section_row_mapping) = 6

---------------------------------------------------------------------------
(* Storage upload: VectorDB.upload_chunks, database.py:18-44               *)
(*                                                                         *)
(* The rows are named 1..n.  An insert succeeds or raises, as the database *)
(* decides; insert_log keeps every insert executed: the rows it was given, *)
(* whether it is the insert of a batch (database.py:29) or the retry of a  *)
(* row (database.py:36), and whether it succeeded.                         *)

MaxUploadRows == 4
MaxBatchSize == 3

\* rows[i:i + batch_size] (database.py:27)
BatchAt(rows, i, batch_size) == Slice(rows, i, i + batch_size)

\* success_count += len(batch) (database.py:30)
SuccessAfterRow(count, batch) == count + 1
SuccessAfterBatch(count, batch) == count + Len(batch)

UploadIdle ==
    /\ upload_rows = <<>>
    /\ upload_batch_size = 1
    /\ upload_i = 0
    /\ upload_batch = <<>>
    /\ retry_j = 1
    /\ success_count = 0
    /\ failed_count = 0
    /\ insert_log = <<>>
    /\ upload_pc = "idle"

UploadInit ==
    /\ upload_rows \in {[j \in 1..n |-> j] : n \in 0..MaxUploadRows}
    /\ upload_batch_size \in 1..MaxBatchSize
    /\ upload_i = 0
    /\ upload_batch = <<>>
    /\ retry_j = 1
    /\ success_count = 0
    /\ failed_count = 0
    /\ insert_log = <<>>
    /\ upload_pc = "loop"

uploadArgs == <<upload_rows, upload_batch_size>>

\* database.py:26-30: the insert of the batch succeeds
UploadBatchInserted ==
    /\ upload_pc = "loop"
    /\ upload_i < Len(upload_rows)
    /\ LET batch == BatchAt(upload_rows, upload_i, upload_batch_size)
       IN  /\ insert_log' = Append(insert_log, [rows |-> batch, retry |-> FALSE, ok |-> TRUE])
           /\ success_count' = SuccessAfterBatch(success_count, batch)
    /\ upload_i' = upload_i + upload_batch_size
    /\ UNCHANGED <<uploadArgs, upload_batch, retry_j, failed_count, upload_pc, exceptUpload>>

\* database.py:26-34: the insert of the batch raises, the rows are retried
UploadBatchFails ==
    /\ upload_pc = "loop"
    /\ upload_i < Len(upload_rows)
    /\ LET batch == BatchAt(upload_rows, upload_i, upload_batch_size)
       IN  /\ insert_log' = Append(insert_log, [rows |-> batch, retry |-> FALSE, ok |-> FALSE])
           /\ upload_batch' = batch
    /\ retry_j' = 1
    /\ upload_pc' = "retry"
    /\ UNCHANGED <<uploadArgs, upload_i, success_count, failed_count, exceptUpload>>

\* database.py:34-37: the insert of one row succeeds
UploadRowInserted ==
    /\ upload_pc = "retry"
    /\ retry_j <= Len(upload_batch)
    /\ insert_log' = Append(insert_log,
           [rows |-> <<upload_batch[retry_j]>>, retry |-> TRUE, ok |-> TRUE])
    /\ success_count' = success_count + 1
    /\ retry_j' = retry_j + 1
    /\ UNCHANGED <<uploadArgs, upload_i, upload_batch, failed_count, upload_pc, exceptUpload>>

\* database.py:34-40: the insert of one row raises
UploadRowFails ==
    /\ upload_pc = "retry"
    /\ retry_j <= Len(upload_batch)
    /\ insert_log' = Append(insert_log,
           [rows |-> <<upload_batch[retry_j]>>, retry |-> TRUE, ok |-> FALSE])
    /\ failed_count' = failed_count + 1
    /\ retry_j' = retry_j + 1
    /\ UNCHANGED <<uploadArgs, upload_i, upload_batch, success_count, upload_pc, exceptUpload>>

\* database.py:34 and 26: the rows of the batch are done, the next batch
UploadRetryDone ==
    /\ upload_pc = "retry"
    /\ retry_j > Len(upload_batch)
    /\ upload_i' = upload_i + upload_batch_size
    /\ upload_pc' = "loop"
    /\ UNCHANGED <<uploadArgs, upload_batch, retry_j, success_count, failed_count, insert_log,
                   exceptUpload>>

\* database.py:42-44
UploadReturn ==
    /\ upload_pc = "loop"
    /\ upload_i >= Len(upload_rows)
    /\ upload_pc' = "done"
    /\ UNCHANGED <<uploadArgs, upload_i, upload_batch, retry_j, success_count, failed_count,
                   insert_log, exceptUpload>>

UploadNext ==
    \/ UploadBatchInserted
    \/ UploadBatchFails
    \/ UploadRowInserted
    \/ UploadRowFails
    \/ UploadRetryDone
    \/ UploadReturn

Holds(k, r) == \E p \in 1..Len(insert_log[k].rows) : insert_log[k].rows[p] = r

BatchInserts(r) == {k \in 1..Len(insert_log) : Holds(k, r) /\ ~insert_log[k].retry}
Retries(r) == {k \in 1..Len(insert_log) : Holds(k, r) /\ insert_log[k].retry}

UploadRowIds == 1..Len(upload_rows)

\* What C14 says of a state.
UploadCounts ==
    /\ \A r \in UploadRowIds :
          /\ Cardinality(BatchInserts(r)) <= 1
          /\ Cardinality(Retries(r)) <= 1
          /\ \A k \in BatchInserts(r) : insert_log[k].ok => Retries(r) = {}
          /\ \A k \in Retries(r) : \E b \in BatchInserts(r) : b < k /\ ~insert_log[b].ok
    /\ upload_pc = "done" =>
          /\ \A r \in UploadRowIds :
                /\ Cardinality(BatchInserts(r)) = 1
                /\ \A k \in BatchInserts(r) : ~insert_log[k].ok => Cardinality(Retries(r)) = 1
          /\ success_count + failed_count = Len(upload_rows)
          /\ failed_count =
                Cardinality({r \in UploadRowIds : \E k \in Retries(r) : ~insert_log[k].ok})
          /\ success_count =
                Cardinality({r \in UploadRowIds : \E k \in 1..Len(insert_log) :
                                 Holds(k, r) /\ insert_log[k].ok})

\* C14: the loop terminates; a batch whose insert fails is retried row by
\* row, each row once; a row of a batch whose insert succeeded is not
\* inserted again; at the end success_count + failed_count is the number of
\* rows and failed_count counts the rows whose retry failed.
C14_RetryAndIsolate == []UploadCounts /\ <>(upload_pc = "done")

\* A run over two batches: the first inserted at once, the second failed
\* and retried with one row inserted and one failing.
C14_Witness ==
    /\ upload_pc = "done"
    /\ Len(upload_rows) = 4
    /\ upload_batch_size = 2
    /\ insert_log = <<[rows |-> <<1, 2>>, retry |-> FALSE, ok |-> TRUE],
                      [rows |-> <<3, 4>>, retry |-> FALSE, ok |-> FALSE],
                      [rows |-> <<3>>, retry |-> TRUE, ok |-> TRUE],
                      [rows |-> <<4>>, retry |-> TRUE, ok |-> FALSE]>>
    /\ success_count = 3
    /\ failed_count = 1

---------------------------------------------------------------------------
(* Specifications: one per component, the other components idle *)

InitSplit == SplitInit /\ ChunkIdle /\ ItemIdle /\ TblIdle /\ CleanIdle /\ BatchIdle /\ MainIdle
    /\ UploadIdle
SpecSplit == InitSplit /\ [][SplitNext]_vars

InitChunk == ChunkInit /\ SplitIdle /\ ItemIdle /\ TblIdle /\ CleanIdle /\ BatchIdle /\ MainIdle
    /\ UploadIdle
SpecChunk == InitChunk /\ [][ChunkNext]_vars

InitItem == ItemInit /\ SplitIdle /\ ChunkIdle /\ TblIdle /\ CleanIdle /\ BatchIdle /\ MainIdle
    /\ UploadIdle
SpecItem == InitItem /\ [][ItemNext]_vars

InitTbl == TblInit /\ SplitIdle /\ ChunkIdle /\ ItemIdle /\ CleanIdle /\ BatchIdle /\ MainIdle
    /\ UploadIdle
SpecTbl == InitTbl /\ [][TblNext]_vars

InitClean == CleanInit /\ SplitIdle /\ ChunkIdle /\ ItemIdle /\ TblIdle /\ BatchIdle /\ MainIdle
    /\ UploadIdle
SpecClean == InitClean /\ [][CleanNext]_vars

InitBatch == BatchInit /\ SplitIdle /\ ChunkIdle /\ ItemIdle /\ TblIdle /\ CleanIdle /\ MainIdle
    /\ UploadIdle
SpecBatch == InitBatch /\ [][BatchNext]_vars

InitMain == MainInit /\ SplitIdle /\ ChunkIdle /\ ItemIdle /\ TblIdle /\ CleanIdle /\ BatchIdle
    /\ UploadIdle
SpecMain == InitMain /\ [][MainNext]_vars

InitUpload ==
    UploadInit /\ SplitIdle /\ ChunkIdle /\ ItemIdle /\ TblIdle /\ CleanIdle /\ BatchIdle /\ MainIdle

\* The loop is sequential code that runs on: a step that can be taken is taken.
SpecUpload == InitUpload /\ [][UploadNext]_vars /\ WF_vars(UploadNext)

===========================================================================
